---- MODULE Spec2Model ----
(***************************************************************************)
(* A model of the migration orchestration engine of ai-migrate:            *)
(*   - manifest.py : FileEntry / FileGroup identities (group_name)         *)
(*   - projects.py : merge_manifests and the bounded-concurrency scheduler *)
(*                   run / process_one_with_sem / process_one_fileset      *)
(*   - the attempt state machine of migrate.run (not part of the sources   *)
(*     at hand; its steps follow section 4.3 of the specification).        *)
(***************************************************************************)
EXTENDS Integers, Sequences, FiniteSets, TLC

(***************************************************************************)
(* Bounds                                                                  *)
(***************************************************************************)
MaxBase == 2
MaxIncoming == 2
MaxGroupFiles == 3
NumGroups == 2
MaxWorkers == 2
MaxTries == 2
MaxRuns == 3
MaxClock == 9
TicksPerSecond == 2
MaxGit == 1
MaxCli == 1
MaxJson == 2
MaxLines == 4
MaxRenders == 2

(***************************************************************************)
(* Text.  A Python str is a sequence of one-character strings.             *)
(***************************************************************************)
Ord(c) ==
    CASE c = "," -> 44
      [] c = "-" -> 45
      [] c = "." -> 46
      [] c = "/" -> 47
      [] c = "_" -> 95
      [] c = "a" -> 97
      [] c = "b" -> 98
      [] c = "d" -> 100

RECURSIVE StrLess(_, _)
StrLess(p, q) ==
    IF q = <<>> THEN FALSE
    ELSE IF p = <<>> THEN TRUE
    ELSE IF Ord(Head(p)) # Ord(Head(q)) THEN Ord(Head(p)) < Ord(Head(q))
    ELSE StrLess(Tail(p), Tail(q))

RECURSIVE Insert(_, _)
Insert(p, s) ==
    IF s = <<>> THEN <<p>>
    ELSE IF StrLess(p, Head(s)) THEN <<p>> \o s
    ELSE <<Head(s)>> \o Insert(p, Tail(s))

RECURSIVE sorted(_)
sorted(s) == IF s = <<>> THEN <<>> ELSE Insert(Head(s), sorted(Tail(s)))

RECURSIVE join(_, _)
join(sep, s) ==
    IF s = <<>> THEN <<>>
    ELSE IF Len(s) = 1 THEN Head(s)
    ELSE Head(s) \o sep \o join(sep, Tail(s))

RECURSIVE flatten(_)
flatten(filename) ==
    IF filename = <<>> THEN <<>>
    ELSE (IF Head(filename) = "/" THEN <<"_", "_">> ELSE <<Head(filename)>>)
         \o flatten(Tail(filename))

(***************************************************************************)
(* sha256(...).hexdigest()[:8] keeps a fixed-width prefix of a digest of   *)
(* the bytes.  The digest is modelled by a 24-bit polynomial digest of the *)
(* same bytes (TLC's integers are 32-bit): a deterministic function of the *)
(* byte string and of nothing else.                                        *)
(***************************************************************************)
HashWidth == 16777216

RECURSIVE Digest(_, _)
Digest(h, bytes) ==
    IF bytes = <<>> THEN h
    ELSE Digest((h * 31 + Ord(Head(bytes))) % HashWidth, Tail(bytes))

sha256_8(bytes) == Digest(7, bytes)

(***************************************************************************)
(* manifest.py                                                             *)
(***************************************************************************)
Results == {"?", "pass", "fail", "fail-pre-verify"}

FileEntry(filename, result) == [filename |-> filename, result |-> result]
FileGroup(files, result) == [files |-> files, result |-> result]

IsFileGroup(e) == "files" \in DOMAIN e

FileEntry_group_name(e) == flatten(e.filename)

\* group_name without the case of one file: every group is named by a hash.
FileGroup_group_name_hashed(g) ==
    flatten(g.files[1]) \o <<"-">> \o <<sha256_8(join(<<",">>, sorted(g.files)))>>

FileGroup_group_name(g) ==
    IF Len(g.files) = 1
    THEN FileEntry_group_name(FileEntry(g.files[1], "?"))
    ELSE flatten(g.files[1]) \o <<"-">>
         \o <<sha256_8(join(<<",">>, sorted(g.files)))>>

group_name(e) ==
    IF IsFileGroup(e) THEN FileGroup_group_name(e) ELSE FileEntry_group_name(e)

(***************************************************************************)
(* State                                                                   *)
(***************************************************************************)
VARIABLES
    manifest1,   \* merge_manifests: the base manifest (its entries are mutated in place)
    manifest2,   \* merge_manifests: the incoming manifest
    base0,       \* history: manifest1 as it was when merge_manifests was called
    merged,      \* the manifest merge_manifests returned
    remerged,    \* the manifest a second merge_manifests, of merged with manifest2, returned
    mpc,         \* "call" before merge_manifests ran, "done" after
    group,       \* a FileGroup whose name is taken
    permuted,    \* the same FileGroup with its files in another order
    names,       \* <<group.group_name(), permuted.group_name()>> once computed
    npc,         \* "call" before group_name ran, "done" after
    max_workers, \* run(): the width of the semaphore
    pre_verify_cmd, \* run(): TRUE when a pre-verify command is configured
    file_list,   \* run(): the FileGroups to migrate, in order
    sem,         \* asyncio.Semaphore._value
    next_i,      \* run(): index of the next file_set the spawning loop takes
    spc,         \* run(): "spawning", "returned" or "raised"
    pc,          \* per group: where its task stands
    tries,       \* per group: failed generate/verify cycles of its attempt
    outcome,     \* per group: how run_migration ended ("none" while it has not)
    new_result,  \* per group: new_result of process_one_fileset ("none" while unset)
    target_sha,  \* run(): the nonlocal target_sha
    results,     \* run(): the results list
    orig,        \* the original files: path -> content
    ws,          \* per workspace handle: the contents of the copy (<<>> while free)
    wsid,        \* per group: the workspace handle of its attempt (0 while it has none)
    transcript,  \* per group: the kinds of the messages of its attempt's conversation
    cmd_log,     \* per group: the subprocesses its attempt ran, <<command, exit code>>
    bars,        \* StatusManager.bars: per task its status and message
    snapshots,   \* the manifest snapshots written, each the file list it holds
    interrupted, \* TRUE once the run was cancelled from outside
    clock,       \* the wall clock, in ticks
    manifest_dir, \* the manifest files of the working directory: name -> the run that wrote it
    written,     \* history: per ended run, the name of the file it wrote
    loaded,      \* run() setup: the manifest read from manifest_file (no files when there is none)
    git_manifest, \* run() setup: the manifest manifest_from_git() builds from the branches
    cli_files,   \* run() setup: the files given on the command line
    only_failed, \* run() setup: the only_failed flag
    resume,      \* run() setup: the resume flag
    manifest,    \* run() setup: the manifest after the merge
    work_list,   \* run() setup: file_list as the spawning loop gets it
    log_files,   \* per created task: the log file process_one_fileset opens
    run_results, \* run() setup: the results list when the TaskGroup is left
    persisted,   \* the files of the manifest run() wrote
    saved,       \* TRUE once run() wrote its manifest file
    rpc,         \* run(): "call", "tasks", "persist" or "returned"
    arg,         \* the argument of the function called
    ret,         \* what the function returned
    fpc,         \* the function called, and whether it has returned
    target_files, \* one attempt: the files of its group
    dont_create_evals, \* one attempt: the flag that switches the capture of evaluations off
    verify_cmd,  \* one attempt: the verify command
    originals,   \* one attempt: the original files, path -> content
    copy,        \* one attempt: the isolated copy, path -> content
    evals,       \* the evaluations directory: the artifacts in it
    evals0,      \* history: the evaluations directory when the attempt began
    etries,      \* one attempt: its failed cycles
    epc,         \* one attempt: its state
    store_prefix, \* LocalStorageBackend.prefix
    dirs,        \* the file system: the directories
    disk,        \* the file system: the files, full path -> bytes
    tracked,     \* history: relative path -> the bytes last saved to it and not deleted since
    op,          \* the last call on the backend
    sret,        \* what the last call returned or raised
    st_list,     \* the status registry: file_list of the run that uses it
    sm_bars,     \* StatusManager.bars: name -> status and message of the StatusBar
    sm_lock,     \* StatusManager.lock: the coroutine that holds it, "free" when none does
    running,     \* the coroutine the event loop is running, "none" between two of them
    cidx,        \* per coroutine: the calls on the StatusManager it has completed
    step,        \* per coroutine: where it stands in its call
    st_outcome,  \* per group: the status its task marked ("none" while it has not)
    shown,       \* what the last render printed
    last,        \* history: the last update or render, and the coroutine that made it
    renders      \* the renders the render loop has made

varsMerge == <<manifest1, manifest2, base0, merged, remerged, mpc>>
varsName == <<group, permuted, names, npc>>
varsPersist == <<clock, manifest_dir, written>>
varsRun == <<max_workers, pre_verify_cmd, file_list, sem, next_i, spc, pc, tries,
             outcome, new_result, target_sha, results, orig, ws, wsid, transcript,
             cmd_log, bars, snapshots, interrupted>>
varsSetup == <<loaded, git_manifest, cli_files, only_failed, resume, manifest, work_list,
               log_files, run_results, persisted, saved, rpc>>
varsCore == <<varsMerge, varsName, varsRun, varsPersist>>
varsFn == <<arg, ret, fpc>>
varsEval == <<target_files, dont_create_evals, verify_cmd, originals, copy, evals, evals0,
              etries, epc>>
varsStore == <<store_prefix, dirs, disk, tracked, op, sret>>
varsStatus == <<st_list, sm_bars, sm_lock, running, cidx, step, st_outcome, shown, last,
                renders>>
varsAux == <<varsSetup, varsFn, varsEval, varsStore, varsStatus>>
varsButSetup == <<varsCore, varsFn, varsEval, varsStore, varsStatus>>
varsButFn == <<varsCore, varsSetup, varsEval, varsStore, varsStatus>>
varsButEval == <<varsCore, varsSetup, varsFn, varsStore, varsStatus>>
varsButStore == <<varsCore, varsSetup, varsFn, varsEval, varsStatus>>
varsButStatus == <<varsCore, varsSetup, varsFn, varsEval, varsStore>>
vars == <<varsCore, varsAux>>

Manifest(files) == [files |-> files]

(***************************************************************************)
(* Input universes                                                         *)
(***************************************************************************)
P_a == <<"a">>
P_b == <<"b">>
P_da == <<"d", "/", "a">>
P_d__a == <<"d", "_", "_", "a">>
Paths == {P_a, P_b, P_da, P_d__a}

\* The entry shapes drawn for merge_manifests.  Base and incoming name the same
\* two groups in different shapes: "d/a" and "d__a" flatten to one name, and a
\* legacy entry for "b" has the name of the one-file group ["b"].
BaseShapes == {FileEntry(P_da, "?"), FileEntry(P_b, "?")}
IncomingShapes == {FileEntry(P_d__a, "?"), FileGroup(<<P_b>>, "?")}

BaseEntries == {[s EXCEPT !.result = r] : s \in BaseShapes, r \in Results}
IncomingEntries == {[s EXCEPT !.result = r] : s \in IncomingShapes, r \in Results}

SeqsUpTo(S, n) == UNION {[1..k -> S] : k \in 0..n}

IsInjective(s) == \A i, j \in DOMAIN s : s[i] = s[j] => i = j

\* Non-empty lists of distinct paths.
FileLists == {s \in SeqsUpTo(Paths, MaxGroupFiles) : Len(s) >= 1 /\ IsInjective(s)}

IsPermutationOf(s, t) ==
    /\ Len(s) = Len(t)
    /\ {s[i] : i \in DOMAIN s} = {t[i] : i \in DOMAIN t}

(***************************************************************************)
(* projects.py: merge_manifests                                            *)
(***************************************************************************)
\* A dict is a sequence of [key, ref] in insertion order; ref is the index of
\* the entry object in manifest1.files (the dict holds references).
HasKey(d, k) == \E j \in DOMAIN d : d[j].key = k

KeyIndex(d, k) == CHOOSE j \in DOMAIN d : d[j].key = k

DictSet(d, k, ref) ==
    IF HasKey(d, k) THEN [d EXCEPT ![KeyIndex(d, k)].ref = ref]
    ELSE Append(d, [key |-> k, ref |-> ref])

\* entries = {f.group_name(): f for f in manifest1.files}
RECURSIVE EntriesFrom(_, _, _)
EntriesFrom(files, i, d) ==
    IF i > Len(files) THEN d
    ELSE EntriesFrom(files, i + 1, DictSet(d, group_name(files[i]), i))

\* Promote with the slip of promoting only entries that never ran.
PromoteOnlyUnknown(objs, d, f) ==
    IF /\ f.result = "pass"
       /\ HasKey(d, group_name(f))
       /\ objs[d[KeyIndex(d, group_name(f))].ref].result = "?"
    THEN [objs EXCEPT ![d[KeyIndex(d, group_name(f))].ref].result = "pass"]
    ELSE objs

\* Promote with the slip of taking over whatever result the incoming entry holds.
PromoteCopyResult(objs, d, f) ==
    IF HasKey(d, group_name(f))
    THEN [objs EXCEPT ![d[KeyIndex(d, group_name(f))].ref].result = f.result]
    ELSE objs

\* if f.result == "pass" and f.group_name() in entries:
\*     entries[f.group_name()].result = "pass"
Promote(objs, d, f) ==
    IF f.result = "pass" /\ HasKey(d, group_name(f))
    THEN [objs EXCEPT ![d[KeyIndex(d, group_name(f))].ref].result = "pass"]
    ELSE objs

RECURSIVE PromoteAll(_, _, _, _)
PromoteAll(objs, d, incoming, k) ==
    IF k > Len(incoming) THEN objs
    ELSE PromoteAll(Promote(objs, d, incoming[k]), d, incoming, k + 1)

\* The entry objects of m1 after the loop, and list(entries.values()).
MergedObjects(m1, m2) ==
    PromoteAll(m1.files, EntriesFrom(m1.files, 1, <<>>), m2.files, 1)

MergedFiles(m1, m2) ==
    LET d == EntriesFrom(m1.files, 1, <<>>)
        objs == MergedObjects(m1, m2)
    IN [j \in 1..Len(d) |-> objs[d[j].ref]]

merge_manifests ==
    /\ mpc = "call"
    /\ manifest1' = [manifest1 EXCEPT !.files = MergedObjects(manifest1, manifest2)]
    /\ merged' = [manifest1 EXCEPT !.files = MergedFiles(manifest1, manifest2)]
    /\ mpc' = "done"
    /\ UNCHANGED <<manifest2, base0, remerged, varsName, varsRun, varsPersist, varsAux>>

\* The scheduler's variables while no run is modelled.
RunIdle ==
    /\ max_workers = 1
    /\ pre_verify_cmd = FALSE
    /\ file_list = <<>>
    /\ sem = 1
    /\ next_i = 1
    /\ spc = "idle"
    /\ pc = <<>>
    /\ tries = <<>>
    /\ outcome = <<>>
    /\ new_result = <<>>
    /\ target_sha = "None"
    /\ results = <<>>
    /\ orig = <<>>
    /\ ws = <<>>
    /\ wsid = <<>>
    /\ transcript = <<>>
    /\ cmd_log = <<>>
    /\ bars = <<>>
    /\ snapshots = <<>>
    /\ interrupted = FALSE

\* The working directory while no end of a run is modelled.
PersistIdle ==
    /\ clock = 0
    /\ manifest_dir = <<>>
    /\ written = <<>>

NameIdle ==
    /\ group = FileGroup(<<P_a>>, "?")
    /\ permuted = FileGroup(<<P_a>>, "?")
    /\ names = <<>>
    /\ npc = "idle"

MergeIdle ==
    /\ manifest1 = Manifest(<<>>)
    /\ manifest2 = Manifest(<<>>)
    /\ base0 = Manifest(<<>>)
    /\ merged = Manifest(<<>>)
    /\ remerged = Manifest(<<>>)
    /\ mpc = "idle"

\* The setup of a run while no setup is modelled.
SetupIdle ==
    /\ loaded = Manifest(<<>>)
    /\ git_manifest = Manifest(<<>>)
    /\ cli_files = <<>>
    /\ only_failed = FALSE
    /\ resume = FALSE
    /\ manifest = Manifest(<<>>)
    /\ work_list = <<>>
    /\ log_files = <<>>
    /\ run_results = <<>>
    /\ persisted = <<>>
    /\ saved = FALSE
    /\ rpc = "idle"

CoreIdle ==
    /\ MergeIdle
    /\ NameIdle
    /\ RunIdle
    /\ PersistIdle

\* No function is called.
FnIdle ==
    /\ arg = <<>>
    /\ ret = <<>>
    /\ fpc = "idle"

\* No attempt with its evaluation is modelled.
EvalIdle ==
    /\ target_files = <<>>
    /\ dont_create_evals = FALSE
    /\ verify_cmd = ""
    /\ originals = <<>>
    /\ copy = <<>>
    /\ evals = <<>>
    /\ evals0 = <<>>
    /\ etries = 0
    /\ epc = "idle"

\* No storage backend is modelled.
StoreIdle ==
    /\ store_prefix = <<>>
    /\ dirs = {}
    /\ disk = <<>>
    /\ tracked = <<>>
    /\ op = [name |-> "idle", path |-> <<>>]
    /\ sret = <<>>

\* No status registry is modelled.
StatusIdle ==
    /\ st_list = <<>>
    /\ sm_bars = <<>>
    /\ sm_lock = "free"
    /\ running = "none"
    /\ cidx = <<>>
    /\ step = <<>>
    /\ st_outcome = <<>>
    /\ shown = <<>>
    /\ last = [task |-> "none", kind |-> "none"]
    /\ renders = 0

AuxIdle ==
    /\ SetupIdle
    /\ FnIdle
    /\ EvalIdle
    /\ StoreIdle
    /\ StatusIdle

IdleButSetup ==
    /\ CoreIdle
    /\ FnIdle
    /\ EvalIdle
    /\ StoreIdle
    /\ StatusIdle

IdleButFn ==
    /\ CoreIdle
    /\ SetupIdle
    /\ EvalIdle
    /\ StoreIdle
    /\ StatusIdle

IdleButEval ==
    /\ CoreIdle
    /\ SetupIdle
    /\ FnIdle
    /\ StoreIdle
    /\ StatusIdle

IdleButStore ==
    /\ CoreIdle
    /\ SetupIdle
    /\ FnIdle
    /\ EvalIdle
    /\ StatusIdle

IdleButStatus ==
    /\ CoreIdle
    /\ SetupIdle
    /\ FnIdle
    /\ EvalIdle
    /\ StoreIdle

InitMerge ==
    /\ manifest1 \in {Manifest(fs) : fs \in SeqsUpTo(BaseEntries, MaxBase)}
    /\ manifest2 \in {Manifest(fs) : fs \in SeqsUpTo(IncomingEntries, MaxIncoming)}
    /\ base0 = manifest1
    /\ merged = Manifest(<<>>)
    /\ remerged = Manifest(<<>>)
    /\ mpc = "call"
    /\ NameIdle
    /\ RunIdle
    /\ PersistIdle
    /\ AuxIdle

NextMerge == merge_manifests

SpecMerge == InitMerge /\ [][NextMerge]_vars

(***************************************************************************)
(* Properties of merge_manifests                                           *)
(***************************************************************************)
A == base0.files
B == manifest2.files
M == merged.files

SameGroup(e, f) == group_name(e) = group_name(f)

\* The same entry up to its result.
SameShape(e, f) == [e EXCEPT !.result = "?"] = [f EXCEPT !.result = "?"]

PassIncoming(e) == \E k \in DOMAIN B : B[k].result = "pass" /\ SameGroup(B[k], e)

\* C1: merge(A, B) never turns an entry of A whose result is "pass" into a
\* non-pass result: every group that A records as "pass" is in the merged
\* manifest, and only with result "pass", whatever B holds for it.
C1_PassNeverDowngraded ==
    mpc = "done" =>
        \A i \in DOMAIN A :
            A[i].result = "pass" =>
                /\ \E j \in DOMAIN M : SameGroup(M[j], A[i])
                /\ \A j \in DOMAIN M : SameGroup(M[j], A[i]) => M[j].result = "pass"

\* C2: every entry of A that is non-pass and whose group identity matches an
\* entry of B with result "pass" has result "pass" after merge(A, B).
C2_PassIncomingPromotes ==
    mpc = "done" =>
        \A i \in DOMAIN A :
            (A[i].result # "pass" /\ PassIncoming(A[i])) =>
                /\ \E j \in DOMAIN M : SameGroup(M[j], A[i])
                /\ \A j \in DOMAIN M : SameGroup(M[j], A[i]) => M[j].result = "pass"

C2_Witness ==
    /\ mpc = "done"
    /\ \E i \in DOMAIN A : A[i].result \in {"fail", "fail-pre-verify"} /\ PassIncoming(A[i])

\* C3: an incoming entry whose result is not "pass" never changes a result.
\* Every entry object of base keeps its result unless a passing incoming entry
\* of its group promoted it, and every entry of the merged manifest is a base
\* entry with its result as base had it or so promoted: no non-pass value is
\* ever written.
C3_NonPassIncomingChangesNothing ==
    mpc = "done" =>
        /\ \A i \in DOMAIN A :
               manifest1.files[i].result # A[i].result =>
                   manifest1.files[i].result = "pass" /\ PassIncoming(A[i])
        /\ \A j \in DOMAIN M :
               \E i \in DOMAIN A :
                   /\ SameShape(M[j], A[i])
                   /\ \/ M[j].result = A[i].result
                      \/ M[j].result = "pass" /\ PassIncoming(A[i])

C3_Witness ==
    /\ mpc = "done"
    /\ \E i \in DOMAIN A, k \in DOMAIN B :
           /\ SameGroup(A[i], B[k])
           /\ A[i].result # "pass" /\ B[k].result # "pass"
           /\ A[i].result # B[k].result
           /\ ~PassIncoming(A[i])

\* C4: merge(base, incoming) returns exactly the entries of base, in base's
\* order: none is dropped (also when base lists one group twice), none is
\* added, and an entry without a matching incoming entry is unchanged.
C4_ExactlyTheBaseEntries ==
    mpc = "done" =>
        /\ Len(M) = Len(A)
        /\ \A i \in DOMAIN A :
               /\ i \in DOMAIN M
               /\ SameShape(M[i], A[i])
               /\ (~\E k \in DOMAIN B : SameGroup(B[k], A[i])) => M[i] = A[i]

(***************************************************************************)
(* manifest.py: FileGroup.group_name on two orderings of one file set      *)
(***************************************************************************)
take_group_names ==
    /\ npc = "call"
    /\ names' = <<group_name(group), group_name(permuted)>>
    /\ npc' = "done"
    /\ UNCHANGED <<group, permuted, varsMerge, varsRun, varsPersist, varsAux>>

InitName ==
    /\ group \in {FileGroup(fs, "?") : fs \in FileLists}
    /\ permuted \in {FileGroup(fs, "?") : fs \in {t \in FileLists : IsPermutationOf(t, group.files)}}
    /\ names = <<>>
    /\ npc = "call"
    /\ MergeIdle
    /\ RunIdle
    /\ PersistIdle
    /\ AuxIdle

NextName == take_group_names

SpecName == InitName /\ [][NextName]_vars

\* C5: group identity is invariant under permutation: group_name() returns the
\* same name for every ordering of the same set of file paths.
C5_NameInvariantUnderPermutation ==
    npc = "done" => names[1] = names[2]

(***************************************************************************)
(* projects.py: run, process_one_with_sem, process_one_fileset             *)
(*                                                                         *)
(* Each await is a point where another task may run.  A task's position:   *)
(*   "none"      not created yet                                           *)
(*   "created"   created, waiting for the semaphore (async with sem)       *)
(*   "start"     holds a permit, at the head of process_one_fileset        *)
(*   "open_log"  after update_message("Running..."), before the log opens  *)
(*   "INIT" .. "PASS"  inside run_migration (the attempt state machine)    *)
(*   "handler"   run_migration ended; the else/except clause is next       *)
(*   "finally"   new_result is set; finally and results.append are next    *)
(*   "done"      the task ended, its permit released                       *)
(*   "cancelled" the task was cancelled                                    *)
(*                                                                         *)
(* projects.py calls update_message, mark_passed and mark_failed on the    *)
(* StatusManager; progress.py defines them as set_message and              *)
(* mark_with_status.  The calls are modelled as those methods: they change *)
(* the status registry under its lock and return; they are part of the     *)
(* step that makes them.  A free permit may go to any waiting task (the    *)
(* semaphore's queue order is not modelled).                               *)
(***************************************************************************)
Groups == 1..NumGroups

\* The files of the g-th FileGroup a file_list can hold: <<g, 1>>, and
\* <<g, 2>> when g is even (so a list has one-file and two-file groups, and a
\* list of one group is a single file).  Their task names are distinct.
FilesOf(g) == IF g % 2 = 0 THEN <<<<g, 1>>, <<g, 2>>>> ELSE <<<<g, 1>>>>

AllFiles == UNION {{FilesOf(g)[k] : k \in DOMAIN FilesOf(g)} : g \in Groups}

\* The groups run() creates a task for: the indices of file_list.
Scheduled == DOMAIN file_list

\* The workspace handles there are: one per attempt that can be alive.
Handles == 1..NumGroups

\* The files handed to run_migration with the slip of handing over the first only.
AttemptTargetsFirstOnly(g) == <<file_list[g].files[1]>>

\* run_migration(files.files, ...): the attempt gets the whole group.
AttemptTargets(g) == file_list[g].files

\* asyncio.Semaphore.locked() with the slip of admitting one task too many.
SemLockedOffByOne(value) == value < 0

\* asyncio.Semaphore.locked(): no permit is left.
SemLocked(value) == value = 0

\* new_result with pass and generic failure swapped.
NewResultSwapped(how) ==
    CASE how = "returned" -> "fail"
      [] how = "FailedPreVerification" -> "fail-pre-verify"
      [] OTHER -> "pass"

\* new_result with except Exception ahead of except FailedPreVerification.
NewResultGenericFirst(how) ==
    CASE how = "returned" -> "pass"
      [] OTHER -> "fail"

\* new_result as the else / except clauses of process_one_fileset set it:
\* every error but FailedPreVerification is taken by except Exception.
NewResult(how) ==
    CASE how = "returned" -> "pass"
      [] how = "FailedPreVerification" -> "fail-pre-verify"
      [] OTHER -> "fail"

\* mark_passed after run_migration returned, mark_failed in both except clauses.
MarkStatus(how) == IF how = "returned" THEN "PASSED" ELSE "FAILED"

\* process_one_with_sem without its try/except: the error leaves the task.
TaskBoundaryUncaught(raised) == IF raised THEN "raised" ELSE "ended"

\* process_one_with_sem: except Exception logs the error; the task ends normally.
TaskBoundary(raised) == IF raised THEN "logged" ELSE "ended"

\* The tasks created with nobody waiting for their end.
TaskGroupExitNoJoin(p) == \A g \in Scheduled : p[g] # "none"

\* async with asyncio.TaskGroup(): the block is left once every task ended.
TaskGroupExit(p) == \A g \in Scheduled : p[g] = "done"

\* The entry of a finished group with its result left at the default.
ResultEntryDefault(files, r) == FileGroup(files.files, "?")

\* FileGroup(files=files.files, result=new_result)
ResultEntry(files, r) == FileGroup(files.files, r)

\* results rebound to the one new entry.
AppendResultRebinds(rs, e) == <<e>>

\* results.append(FileGroup(...)).
AppendResult(rs, e) == Append(rs, e)

HoldsPermit(p) == p \notin {"none", "created", "done", "cancelled"}

InAttempt(p) ==
    p \in {"INIT", "WORKSPACE_READY", "PRE_VERIFY", "GENERATING", "VERIFYING", "PASS"}

Running == spc = "spawning" /\ ~interrupted

\* asyncio.TaskGroup when a task ends with an error, or when the run is
\* cancelled from outside: every unfinished task is cancelled (CancelledError
\* is no Exception: no handler takes it, results.append is skipped, the
\* permit is released) and run() raises before it writes a manifest.
AbortedPc(self, how) ==
    [g \in Groups |->
        IF g = self THEN how
        ELSE IF pc[g] \in {"none", "done"} THEN pc[g] ELSE "cancelled"]

\* The permit released by a statement after the call instead of async with:
\* an error that is logged at the task boundary skips the release.
LeaveTaskKeepsPermit(self, raised) ==
    /\ pc' = [pc EXCEPT ![self] = "done"]
    /\ sem' = IF raised THEN sem ELSE sem + 1
    /\ spc' = spc

\* How a task leaves process_one_with_sem: its permit is released; an error
\* that leaves the task aborts the TaskGroup.
LeaveTask(self, raised) ==
    IF TaskBoundary(raised) = "raised"
    THEN /\ pc' = AbortedPc(self, "done")
         /\ sem' = max_workers
         /\ spc' = "raised"
    ELSE /\ pc' = [pc EXCEPT ![self] = "done"]
         /\ sem' = sem + 1
         /\ spc' = spc

\* run(): the spawning loop: add_status, update_message("Waiting..."), create_task.
spawn ==
    /\ Running
    /\ next_i \in Scheduled
    /\ bars' = [bars EXCEPT ![next_i] = [status |-> "WAITING", message |-> "Waiting..."]]
    /\ pc' = [pc EXCEPT ![next_i] = "created"]
    /\ next_i' = next_i + 1
    /\ UNCHANGED <<varsMerge, varsName, varsPersist, varsAux>>
    /\ UNCHANGED <<max_workers, pre_verify_cmd, file_list, sem, spc, tries, outcome,
                   new_result, target_sha, results, orig, ws, wsid, transcript,
                   cmd_log, snapshots, interrupted>>

\* async with sem: any waiting task may get a free permit.
acquire(self) ==
    /\ Running
    /\ pc[self] = "created"
    /\ ~SemLocked(sem)
    /\ sem' = sem - 1
    /\ pc' = [pc EXCEPT ![self] = "start"]
    /\ UNCHANGED <<varsMerge, varsName, varsPersist, varsAux>>
    /\ UNCHANGED <<max_workers, pre_verify_cmd, file_list, next_i, spc, tries, outcome,
                   new_result, target_sha, results, orig, ws, wsid, transcript, cmd_log,
                   bars, snapshots, interrupted>>

\* if target_sha is None: target_sha = get_git_sha(...), then
\* update_message("Running...").  git succeeds or raises CalledProcessError.
get_sha(self) ==
    /\ Running
    /\ pc[self] = "start"
    /\ \/ /\ target_sha' = "sha"
          /\ bars' = [bars EXCEPT ![self].message = "Running..."]
          /\ pc' = [pc EXCEPT ![self] = "open_log"]
          /\ UNCHANGED <<sem, spc>>
       \/ /\ target_sha = "None"
          /\ target_sha' = target_sha
          /\ bars' = bars
          /\ LeaveTask(self, TRUE)
    /\ UNCHANGED <<varsMerge, varsName, varsPersist, varsAux>>
    /\ UNCHANGED <<max_workers, pre_verify_cmd, file_list, next_i, tries, outcome,
                   new_result, results, orig, ws, wsid, transcript, cmd_log, snapshots,
                   interrupted>>

\* log_file.parent.mkdir(...); log_buffer = open(log_file, "w"): both may raise
\* OSError, outside the try statement.
open_log(self) ==
    /\ Running
    /\ pc[self] = "open_log"
    /\ \/ /\ pc' = [pc EXCEPT ![self] = "INIT"]
          /\ UNCHANGED <<sem, spc>>
       \/ LeaveTask(self, TRUE)
    /\ UNCHANGED <<varsMerge, varsName, varsPersist, varsAux>>
    /\ UNCHANGED <<max_workers, pre_verify_cmd, file_list, next_i, tries, outcome,
                   new_result, target_sha, results, orig, ws, wsid, transcript, cmd_log,
                   bars, snapshots, interrupted>>

\* The else / except clauses: new_result = ..., mark_passed / mark_failed.
handle(self) ==
    /\ Running
    /\ pc[self] = "handler"
    /\ new_result' = [new_result EXCEPT ![self] = NewResult(outcome[self])]
    /\ bars' = [bars EXCEPT ![self].status = MarkStatus(outcome[self])]
    /\ pc' = [pc EXCEPT ![self] = "finally"]
    /\ UNCHANGED <<varsMerge, varsName, varsPersist, varsAux>>
    /\ UNCHANGED <<max_workers, pre_verify_cmd, file_list, sem, next_i, spc, tries,
                   outcome, target_sha, results, orig, ws, wsid, transcript,
                   cmd_log, snapshots, interrupted>>

\* finally: update_message(""), log_buffer.close(); then results.append(...),
\* and the task leaves process_one_with_sem.
finish(self) ==
    /\ Running
    /\ pc[self] = "finally"
    /\ bars' = [bars EXCEPT ![self].message = ""]
    /\ results' = AppendResult(results, ResultEntry(file_list[self], new_result[self]))
    /\ LeaveTask(self, FALSE)
    /\ UNCHANGED <<varsMerge, varsName, varsPersist, varsAux>>
    /\ UNCHANGED <<max_workers, pre_verify_cmd, file_list, next_i, tries, outcome,
                   new_result, target_sha, orig, ws, wsid, transcript, cmd_log,
                   snapshots, interrupted>>

\* The TaskGroup is left once every task ended; run() prints the lists, writes
\* manifest-<ts>.json with files = results, and returns results.
join_and_persist ==
    /\ Running
    /\ next_i \notin Scheduled
    /\ TaskGroupExit(pc)
    /\ snapshots' = Append(snapshots, results)
    /\ spc' = "returned"
    /\ UNCHANGED <<varsMerge, varsName, varsPersist, varsAux>>
    /\ UNCHANGED <<max_workers, pre_verify_cmd, file_list, sem, next_i, pc, tries,
                   outcome, new_result, target_sha, results, orig, ws, wsid,
                   transcript, cmd_log, bars, interrupted>>

\* The run is cancelled from outside (KeyboardInterrupt, cancellation of the
\* caller) while the TaskGroup is open.
interrupt ==
    /\ Running
    /\ interrupted' = TRUE
    /\ pc' = [g \in Groups |-> IF pc[g] \in {"none", "done"} THEN pc[g] ELSE "cancelled"]
    /\ sem' = max_workers
    /\ spc' = "raised"
    /\ UNCHANGED <<varsMerge, varsName, varsPersist, varsAux>>
    /\ UNCHANGED <<max_workers, pre_verify_cmd, file_list, next_i, tries, outcome,
                   new_result, target_sha, results, orig, ws, wsid, transcript, cmd_log,
                   bars, snapshots>>

(***************************************************************************)
(* migrate.run, the attempt state machine.  Its code is not among the      *)
(* sources; the steps are those of section 4.3 of the specification, the   *)
(* errors those of its section 7.  transcript holds the kinds of the       *)
(* messages of the conversation ("system", "user", "assistant",            *)
(* "violation" for the record of a response that broke the protocol,       *)
(* "feedback" for the output of a failed verification); cmd_log holds the  *)
(* subprocesses the attempt ran with their exit codes.  Both live as long  *)
(* as the attempt does.                                                    *)
(***************************************************************************)
Count(seq, kind) == Cardinality({k \in DOMAIN seq : seq[k] = kind})

\* The workspace an attempt is given when every attempt works in one checkout.
AcquireWorkspaceShared(used) == 1

\* The workspace an attempt is given: a checkout no living attempt holds.
AcquireWorkspace(used) ==
    CHOOSE w \in Handles \ used : \A v \in Handles \ used : w <= v

\* The retry loop with no bound.
ExhaustedNever(t) == FALSE

\* The retry bound with one cycle too many.
ExhaustedOneLate(t) == t > MaxTries

\* The retry bound with one cycle too few.
ExhaustedOneEarly(t) == t + 1 >= MaxTries

\* Retry bound: the budget of MaxTries cycles is used up.
Exhausted(t) == t >= MaxTries

\* The verdict on the verify command with the exit code read the wrong way.
VerifyPassedInverted(exit_code) == exit_code # 0

\* VERIFYING: exit code 0 is PASS.
VerifyPassed(exit_code) == exit_code = 0

\* PRE_VERIFIED: exit code 0 lets the attempt go on.
PreVerifyPassed(exit_code) == exit_code = 0

\* The attempt goes on: said is appended to its conversation, ran to the
\* subprocesses it ran.
Ran(self, said, ran) ==
    /\ transcript' = [transcript EXCEPT ![self] = transcript[self] \o said]
    /\ cmd_log' = [cmd_log EXCEPT ![self] = cmd_log[self] \o ran]

\* The attempt terminates: the MigrationAttempt (workspace, conversation,
\* counter of tries) is destroyed; how it ended is what run_migration
\* returns or raises.
EndAttempt(self, how) ==
    /\ outcome' = [outcome EXCEPT ![self] = how]
    /\ pc' = [pc EXCEPT ![self] = "handler"]
    /\ ws' = [w \in Handles |-> IF w = wsid[self] THEN <<>> ELSE ws[w]]
    /\ wsid' = [wsid EXCEPT ![self] = 0]
    /\ transcript' = [transcript EXCEPT ![self] = <<>>]
    /\ cmd_log' = [cmd_log EXCEPT ![self] = <<>>]
    /\ tries' = [tries EXCEPT ![self] = 0]

\* A failed round: one more try is used up; the budget exhausted is FAIL
\* (AttemptExhausted), else the attempt loops back to GENERATING.
FailedRound(self, said, ran) ==
    IF Exhausted(tries[self] + 1)
    THEN EndAttempt(self, "AttemptExhausted")
    ELSE /\ Ran(self, said, ran)
         /\ tries' = [tries EXCEPT ![self] = tries[self] + 1]
         /\ pc' = [pc EXCEPT ![self] = "GENERATING"]
         /\ UNCHANGED <<outcome, ws, wsid>>

\* A response that breaks the protocol taken for a fatal error.
ProtocolViolationFatal(self) == EndAttempt(self, "GenerationProtocolViolation")

\* GenerationProtocolViolation: recorded as a failed round, retried like a
\* verification failure.
ProtocolViolation(self) == FailedRound(self, <<"assistant", "violation">>, <<>>)

\* INIT: examples are selected and the conversation is assembled.
attempt_init(self) ==
    /\ Running
    /\ pc[self] = "INIT"
    /\ Ran(self, <<"system", "user">>, <<>>)
    /\ pc' = [pc EXCEPT ![self] = "WORKSPACE_READY"]
    /\ UNCHANGED <<varsMerge, varsName, varsPersist, varsAux>>
    /\ UNCHANGED <<max_workers, pre_verify_cmd, file_list, sem, next_i, spc, tries,
                   outcome, new_result, target_sha, results, orig, ws, wsid, bars,
                   snapshots, interrupted>>

\* WORKSPACE_READY: the attempt gets a private copy of exactly its files.
workspace_ready(self) ==
    /\ Running
    /\ pc[self] = "WORKSPACE_READY"
    /\ LET w == AcquireWorkspace({wsid[g] : g \in Groups} \ {0})
       IN /\ wsid' = [wsid EXCEPT ![self] = w]
          /\ ws' = [ws EXCEPT ![w] =
                       [k \in DOMAIN AttemptTargets(self) |-> orig[AttemptTargets(self)[k]]]]
    /\ pc' = [pc EXCEPT ![self] = IF pre_verify_cmd THEN "PRE_VERIFY" ELSE "GENERATING"]
    /\ UNCHANGED <<varsMerge, varsName, varsPersist, varsAux>>
    /\ UNCHANGED <<max_workers, pre_verify_cmd, file_list, sem, next_i, spc, tries,
                   outcome, new_result, target_sha, results, orig, transcript, cmd_log,
                   bars, snapshots, interrupted>>

\* PRE_VERIFIED: the pre-verify command runs on the unmodified copy; a non-zero
\* exit ends the attempt as FailedPreVerification.
pre_verify(self) ==
    /\ Running
    /\ pc[self] = "PRE_VERIFY"
    /\ \E exit_code \in {0, 1} :
           IF PreVerifyPassed(exit_code)
           THEN /\ Ran(self, <<>>, <<<<"pre_verify", exit_code>>>>)
                /\ pc' = [pc EXCEPT ![self] = "GENERATING"]
                /\ UNCHANGED <<tries, outcome, ws, wsid>>
           ELSE EndAttempt(self, "FailedPreVerification")
    /\ UNCHANGED <<varsMerge, varsName, varsPersist, varsAux>>
    /\ UNCHANGED <<max_workers, pre_verify_cmd, file_list, sem, next_i, spc,
                   new_result, target_sha, results, orig, bars, snapshots,
                   interrupted>>

\* GENERATING: the response either names exactly the target files, and its
\* blocks are applied to the copy, or violates the protocol: a failed round.
generate(self) ==
    /\ Running
    /\ pc[self] = "GENERATING"
    /\ \E well_formed \in BOOLEAN :
           IF well_formed
           THEN /\ Ran(self, <<"assistant">>, <<>>)
                /\ ws' = [ws EXCEPT ![wsid[self]] = [k \in DOMAIN ws[wsid[self]] |-> "new"]]
                /\ pc' = [pc EXCEPT ![self] = "VERIFYING"]
                /\ UNCHANGED <<tries, outcome, wsid>>
           ELSE ProtocolViolation(self)
    /\ UNCHANGED <<varsMerge, varsName, varsPersist, varsAux>>
    /\ UNCHANGED <<max_workers, pre_verify_cmd, file_list, sem, next_i, spc, new_result,
                   target_sha, results, orig, bars, snapshots, interrupted>>

\* VERIFYING: exit code 0 is PASS; any other is feedback and a failed round.
verify(self) ==
    /\ Running
    /\ pc[self] = "VERIFYING"
    /\ \E exit_code \in {0, 1} :
           IF VerifyPassed(exit_code)
           THEN /\ Ran(self, <<>>, <<<<"verify", exit_code>>>>)
                /\ pc' = [pc EXCEPT ![self] = "PASS"]
                /\ UNCHANGED <<tries, outcome, ws, wsid>>
           ELSE FailedRound(self, <<"feedback">>, <<<<"verify", exit_code>>>>)
    /\ UNCHANGED <<varsMerge, varsName, varsPersist, varsAux>>
    /\ UNCHANGED <<max_workers, pre_verify_cmd, file_list, sem, next_i, spc, new_result,
                   target_sha, results, orig, bars, snapshots, interrupted>>

\* The copy-back made before the verdict of the verification.
copy_back_unverified(self) ==
    /\ Running
    /\ pc[self] = "VERIFYING"
    /\ orig' = [f \in DOMAIN orig |->
                   IF \E k \in DOMAIN AttemptTargets(self) : AttemptTargets(self)[k] = f
                   THEN ws[wsid[self]][CHOOSE k \in DOMAIN AttemptTargets(self) :
                                           AttemptTargets(self)[k] = f]
                   ELSE orig[f]]
    /\ EndAttempt(self, "returned")
    /\ UNCHANGED <<varsMerge, varsName, varsPersist, varsAux>>
    /\ UNCHANGED <<max_workers, pre_verify_cmd, file_list, sem, next_i, spc,
                   new_result, target_sha, results, bars, snapshots, interrupted>>

\* PASS: the files of the copy are copied back over the originals, and
\* run_migration returns.
copy_back(self) ==
    /\ Running
    /\ pc[self] = "PASS"
    /\ orig' = [f \in DOMAIN orig |->
                   IF \E k \in DOMAIN AttemptTargets(self) : AttemptTargets(self)[k] = f
                   THEN ws[wsid[self]][CHOOSE k \in DOMAIN AttemptTargets(self) :
                                           AttemptTargets(self)[k] = f]
                   ELSE orig[f]]
    /\ EndAttempt(self, "returned")
    /\ UNCHANGED <<varsMerge, varsName, varsPersist, varsAux>>
    /\ UNCHANGED <<max_workers, pre_verify_cmd, file_list, sem, next_i, spc,
                   new_result, target_sha, results, bars, snapshots, interrupted>>

\* InfrastructureError: a step before PASS raises (example ranking, isolation,
\* a subprocess that cannot start, the generation call).
attempt_raises(self) ==
    /\ Running
    /\ pc[self] \in {"INIT", "WORKSPACE_READY", "PRE_VERIFY", "GENERATING", "VERIFYING"}
    /\ EndAttempt(self, "InfrastructureError")
    /\ UNCHANGED <<varsMerge, varsName, varsPersist, varsAux>>
    /\ UNCHANGED <<max_workers, pre_verify_cmd, file_list, sem, next_i, spc,
                   new_result, target_sha, results, orig, bars, snapshots, interrupted>>

(***************************************************************************)
(* The run                                                                 *)
(***************************************************************************)
Init ==
    /\ max_workers \in 1..MaxWorkers
    /\ pre_verify_cmd \in BOOLEAN
    /\ file_list \in {[g \in 1..k |-> FileGroup(FilesOf(g), "?")] : k \in 1..NumGroups}
    /\ sem = max_workers
    /\ next_i = 1
    /\ spc = "spawning"
    /\ pc = [g \in Groups |-> "none"]
    /\ tries = [g \in Groups |-> 0]
    /\ outcome = [g \in Groups |-> "none"]
    /\ new_result = [g \in Groups |-> "none"]
    /\ target_sha = "None"
    /\ results = <<>>
    /\ orig = [f \in AllFiles |-> "old"]
    /\ ws = [w \in Handles |-> <<>>]
    /\ wsid = [g \in Groups |-> 0]
    /\ transcript = [g \in Groups |-> <<>>]
    /\ cmd_log = [g \in Groups |-> <<>>]
    /\ bars = [g \in Groups |-> [status |-> "none", message |-> ""]]
    /\ snapshots = <<>>
    /\ interrupted = FALSE
    /\ MergeIdle
    /\ NameIdle
    /\ PersistIdle
    /\ AuxIdle

TaskStep(self) ==
    \/ acquire(self)
    \/ get_sha(self)
    \/ open_log(self)
    \/ attempt_init(self)
    \/ workspace_ready(self)
    \/ pre_verify(self)
    \/ generate(self)
    \/ verify(self)
    \/ copy_back(self)
    \/ attempt_raises(self)
    \/ handle(self)
    \/ finish(self)

\* Every step but the cancellation from outside.
Progress ==
    \/ spawn
    \/ join_and_persist
    \/ \E self \in Groups : TaskStep(self)

Next ==
    \/ spawn
    \/ join_and_persist
    \/ interrupt
    \/ \E self \in Groups : TaskStep(self)

Spec == Init /\ [][Next]_vars

\* The run that nobody cancels: the event loop runs every coroutine that can
\* take a step, and every call an attempt awaits returns or raises.
SpecScheduled ==
    /\ Init
    /\ [][Progress]_vars
    /\ WF_vars(spawn)
    /\ WF_vars(join_and_persist)
    /\ \A g \in Groups : WF_vars(TaskStep(g))

\* The steps of run_migration when every collaborator returns: the example
\* ranking, the isolation, the subprocesses and the generation call end
\* with a result.
AttemptStep(self) ==
    \/ attempt_init(self)
    \/ workspace_ready(self)
    \/ pre_verify(self)
    \/ generate(self)
    \/ verify(self)
    \/ copy_back(self)

\* The run with collaborators that return and nobody cancelling it.
NextReturns ==
    \/ spawn
    \/ join_and_persist
    \/ \E self \in Groups :
           \/ acquire(self)
           \/ get_sha(self)
           \/ open_log(self)
           \/ AttemptStep(self)
           \/ handle(self)
           \/ finish(self)

\* The event loop resumes a coroutine once what it awaits has returned: an
\* attempt that can take a step takes one.
SpecReturns == Init /\ [][NextReturns]_vars /\ \A g \in Groups : WF_vars(AttemptStep(g))

(***************************************************************************)
(* projects.py: run, the manifest file it writes when it ends.  Runs of    *)
(* the tool in one working directory end one after the other, at any       *)
(* distance in time.                                                       *)
(***************************************************************************)
\* datetime.now().strftime("%Y%m%d-%H%M%S"): the time in whole seconds.
strftime(t) == t \div TicksPerSecond

\* results_file = f"manifest-{ts}.json"
results_file(t) == <<"manifest-", strftime(t), ".json">>

\* open(name, "w") and write: the file is created, or truncated and rewritten.
open_w(dir, name, content) ==
    [x \in DOMAIN dir \cup {name} |-> IF x = name THEN content ELSE dir[x]]

\* Time passes.
tick ==
    /\ clock < MaxClock
    /\ clock' = clock + 1
    /\ UNCHANGED <<manifest_dir, written>>
    /\ UNCHANGED <<varsMerge, varsName, varsRun, varsAux>>

\* A run ends: it writes its manifest under the name of the current second.
write_manifest ==
    /\ Len(written) < MaxRuns
    /\ manifest_dir' = open_w(manifest_dir, results_file(clock), Len(written) + 1)
    /\ written' = Append(written, results_file(clock))
    /\ clock' = clock
    /\ UNCHANGED <<varsMerge, varsName, varsRun, varsAux>>

InitPersist ==
    /\ PersistIdle
    /\ MergeIdle
    /\ NameIdle
    /\ RunIdle
    /\ AuxIdle

NextPersist ==
    \/ tick
    \/ write_manifest

SpecPersist == InitPersist /\ [][NextPersist]_vars

(***************************************************************************)
(* projects.py: run, from its call to its return: the setup of the work    *)
(* list, the tasks it creates with their log files, the manifest it        *)
(* writes.  What a task does is the subject of Spec.                       *)
(***************************************************************************)
P_a_b == <<"a", ".", "b">>

\* The entries of the manifest file: two files with the base name "a", a file
\* with a suffix, a group of two files.
SetupShapes ==
    {FileEntry(P_a, "?"), FileEntry(P_da, "?"), FileEntry(P_a_b, "?"),
     FileGroup(<<P_b, P_a>>, "?")}

SetupEntries == {[s EXCEPT !.result = r] : s \in SetupShapes, r \in {"?", "pass"}}

Shape(e) == [e EXCEPT !.result = "?"]

\* The manifest files drawn: no entry is listed twice.
SetupManifests ==
    {fs \in SeqsUpTo(SetupEntries, MaxBase) :
        \A i, j \in DOMAIN fs : Shape(fs[i]) = Shape(fs[j]) => i = j}

\* manifest_from_git: one FileEntry per migration branch, with the status of
\* the branch; a repository has one branch of a name.
GitEntries == {FileEntry(f, r) : f \in {P_a, P_da}, r \in {"pass", "fail"}}

GitManifests ==
    {fs \in SeqsUpTo(GitEntries, MaxGit) :
        \A i, j \in DOMAIN fs : fs[i].filename = fs[j].filename => i = j}

CliFiles == SeqsUpTo({P_a, P_da}, MaxCli)

\* normalize_file_group
normalize_file_group(f) ==
    IF IsFileGroup(f) THEN f ELSE FileGroup(<<f.filename>>, f.result)

\* str.rfind, counted from 1: 0 when c is not in s.
rfind(s, c) ==
    LET I == {i \in DOMAIN s : s[i] = c}
    IN IF I = {} THEN 0 ELSE CHOOSE i \in I : \A j \in I : j <= i

\* PurePath.name: what follows the last separator.
Path_name(p) == SubSeq(p, rfind(p, "/") + 1, Len(p))

\* PurePath.suffix: from the last dot of the name on, unless the dot is the
\* first or the last character of the name.
Path_suffix(p) ==
    LET name == Path_name(p)
        i == rfind(name, ".")
    IN IF 1 < i /\ i < Len(name) THEN SubSeq(name, i, Len(name)) ELSE <<>>

\* PurePath.with_suffix: the old suffix is dropped, the new one appended.
with_suffix(p, suffix) == SubSeq(p, 1, Len(p) - Len(Path_suffix(p))) \o suffix

\* str() of a small natural number.
str(n) == <<(<<"0", "1", "2", "3", "4", "5", "6", "7", "8", "9">>)[n + 1]>>

\* The spawning loop: task_name = Path(file_set.files[0]).name, plus
\* " (+N)" for a group of N + 1 files.
task_name(file_set) ==
    LET name == Path_name(file_set.files[1])
    IN IF Len(file_set.files) > 1
       THEN name \o <<" ", "(", "+">> \o str(Len(file_set.files) - 1) \o <<")">>
       ELSE name

logs_dir == <<"l", "o", "g", "s">>

\* log_file = (logs_dir / task_name).with_suffix(".log")
log_file(name) == with_suffix(logs_dir \o <<"/">> \o name, <<".", "l", "o", "g">>)

\* file_list before the only_failed filter: the files of the command line
\* when there are any, else the entries of the manifest.
FileList(m) ==
    IF cli_files # <<>>
    THEN [i \in DOMAIN cli_files |-> FileGroup(<<cli_files[i]>>, "?")]
    ELSE [i \in DOMAIN m.files |-> normalize_file_group(m.files[i])]

NotPassed(f) == f.result # "pass"

\* run() up to the TaskGroup: the manifest is loaded and merged with the
\* branches, file_list is built; an empty file_list returns [] at once, and
\* only then only_failed drops the groups that passed.
setup ==
    /\ rpc = "call"
    /\ LET m == IF resume THEN Manifest(MergedFiles(loaded, git_manifest)) ELSE loaded
           fl == FileList(m)
       IN /\ manifest' = m
          /\ IF fl = <<>>
             THEN /\ work_list' = <<>>
                  /\ rpc' = "returned"
             ELSE /\ work_list' = IF only_failed THEN SelectSeq(fl, NotPassed) ELSE fl
                  /\ rpc' = "tasks"
    /\ UNCHANGED <<loaded, git_manifest, cli_files, only_failed, resume, log_files,
                   run_results, persisted, saved>>
    /\ UNCHANGED varsButSetup

\* The TaskGroup: one task per file_set of file_list, each with the log file
\* of its task name; the block is left when every task ended, each with the
\* result of its attempt appended to results.
run_tasks ==
    /\ rpc = "tasks"
    /\ log_files' = [i \in DOMAIN work_list |-> log_file(task_name(work_list[i]))]
    /\ \E rs \in [DOMAIN work_list -> {"pass", "fail", "fail-pre-verify"}] :
           run_results' = [i \in DOMAIN work_list |-> FileGroup(work_list[i].files, rs[i])]
    /\ rpc' = "persist"
    /\ UNCHANGED <<loaded, git_manifest, cli_files, only_failed, resume, manifest, work_list,
                   persisted, saved>>
    /\ UNCHANGED varsButSetup

\* The end of run(): manifest-<ts>.json is written with files = results,
\* results returned.
persist ==
    /\ rpc = "persist"
    /\ persisted' = run_results
    /\ saved' = TRUE
    /\ rpc' = "returned"
    /\ UNCHANGED <<loaded, git_manifest, cli_files, only_failed, resume, manifest, work_list,
                   log_files, run_results>>
    /\ UNCHANGED varsButSetup

InitSetup ==
    /\ loaded \in {Manifest(fs) : fs \in SetupManifests}
    /\ git_manifest \in {Manifest(fs) : fs \in GitManifests}
    /\ cli_files \in CliFiles
    /\ only_failed \in BOOLEAN
    /\ resume \in BOOLEAN
    /\ manifest = Manifest(<<>>)
    /\ work_list = <<>>
    /\ log_files = <<>>
    /\ run_results = <<>>
    /\ persisted = <<>>
    /\ saved = FALSE
    /\ rpc = "call"
    /\ IdleButSetup

NextSetup ==
    \/ setup
    \/ run_tasks
    \/ persist

SpecSetup == InitSetup /\ [][NextSetup]_vars

(***************************************************************************)
(* manifest.py: Manifest.model_validate_json.  A JSON object is a record   *)
(* of the keys it has.                                                     *)
(***************************************************************************)
\* The objects drawn for the "files" list: with "files", with "filename",
\* with both, with neither, each with or without "result".
JsonShapes ==
    {[files |-> <<P_a>>], [files |-> <<P_b, P_a>>], [filename |-> P_a],
     [files |-> <<P_b>>, filename |-> P_a], << >>}

WithResult(o, r) == [k \in DOMAIN o \cup {"result"} |-> IF k = "result" THEN r ELSE o[k]]

JsonEntries == JsonShapes \cup {WithResult(o, r) : o \in JsonShapes, r \in {"pass", "fail"}}

\* The optional keys of the manifest object drawn, with the value they get.
JsonOptional == {"target_repo_ref", "verify_cmd"}

JsonManifests ==
    {[k \in ks \cup {"files"} |-> IF k = "files" THEN fs ELSE "given"] :
        ks \in SUBSET JsonOptional, fs \in SeqsUpTo(JsonEntries, MaxJson)}

\* The defaults of the fields of Manifest (time, set by a factory, left out).
ManifestDefault(field) ==
    CASE field = "target_repo_ref" -> ""
      [] field = "target_repo_remote" -> ""
      [] field = "migrate_repo_ref" -> ""
      [] field = "system_prompt" -> "{project_dir}/system_prompt.md"
      [] field = "verify_cmd" -> "{py} {project_dir}/verify.py"
      [] field = "pre_verify_cmd" -> "{py} {project_dir}/verify.py --pre"

ManifestFields ==
    {"target_repo_ref", "target_repo_remote", "migrate_repo_ref", "system_prompt",
     "verify_cmd", "pre_verify_cmd"}

\* result: str = "?"
ResultOf(o) == IF "result" \in DOMAIN o THEN o.result ELSE "?"

\* An object validates as FileGroup when it has the required "files", as
\* FileEntry when it has the required "filename"; other keys are ignored.
ValidFileGroup(o) == "files" \in DOMAIN o
ValidFileEntry(o) == "filename" \in DOMAIN o

\* The union with every member read as a FileGroup of one file.
validate_entry_normalized(o) ==
    IF ValidFileGroup(o) THEN FileGroup(o.files, ResultOf(o))
    ELSE FileGroup(<<o.filename>>, ResultOf(o))

\* files: list[FileGroup | FileEntry]: the member that validates; FileGroup,
\* the left one, when both do.
validate_entry(o) ==
    IF ValidFileGroup(o) THEN FileGroup(o.files, ResultOf(o))
    ELSE FileEntry(o.filename, ResultOf(o))

\* Manifest.model_validate_json: ValidationError when an object of "files"
\* is neither a FileGroup nor a FileEntry.
model_validate_json(j) ==
    IF \E i \in DOMAIN j.files : ~ValidFileGroup(j.files[i]) /\ ~ValidFileEntry(j.files[i])
    THEN [error |-> "ValidationError"]
    ELSE [k \in ManifestFields \cup {"files"} |->
            IF k = "files" THEN [i \in DOMAIN j.files |-> validate_entry(j.files[i])]
            ELSE IF k \in DOMAIN j THEN j[k]
            ELSE ManifestDefault(k)]

parse_manifest ==
    /\ fpc = "parse"
    /\ ret' = model_validate_json(arg)
    /\ fpc' = "parsed"
    /\ arg' = arg
    /\ UNCHANGED varsButFn

InitParse ==
    /\ arg \in JsonManifests
    /\ ret = <<>>
    /\ fpc = "parse"
    /\ IdleButFn

NextParse == parse_manifest

SpecParse == InitParse /\ [][NextParse]_vars

(***************************************************************************)
(* utils.py: extract_code_blocks                                           *)
(***************************************************************************)
\* The newline and the backquote character.
NL == "\n"
TICK == "backquote"

\* The lines drawn: text, an empty line, a header with a name (also
\* indented and followed by text), a header with three backquotes, fences
\* (with a language, indented).
L_text == <<"t">>
L_header_f == <<"#", "#", "#", " ", TICK, "f", TICK>>
L_header_g == <<" ", "#", "#", "#", " ", TICK, "g", TICK, ":">>
L_header_three == <<"#", "#", "#", " ", TICK, "f", TICK, TICK>>
L_fence_lang == <<TICK, TICK, TICK, "p">>
L_fence_indented == <<" ", TICK, TICK, TICK>>

Lines ==
    {L_text, <<>>, L_header_f, L_header_g, L_header_three, L_fence_lang,
     L_fence_indented}

\* The documents drawn: lines joined by newlines, with or without a last newline.
Markdowns ==
    {join(<<NL>>, ls) \o end : ls \in SeqsUpTo(Lines, MaxLines), end \in {<<>>, <<NL>>}}

\* str.splitlines: the text between the newlines; a last newline ends the
\* last line and starts no empty one.
RECURSIVE splitlines_from(_, _)
splitlines_from(s, line) ==
    IF s = <<>> THEN (IF line = <<>> THEN <<>> ELSE <<line>>)
    ELSE IF Head(s) = NL THEN <<line>> \o splitlines_from(Tail(s), <<>>)
    ELSE splitlines_from(Tail(s), Append(line, Head(s)))

splitlines(s) == splitlines_from(s, <<>>)

\* str.lstrip
RECURSIVE lstrip(_)
lstrip(s) == IF s # <<>> /\ Head(s) = " " THEN lstrip(Tail(s)) ELSE s

\* str.startswith
startswith(s, prefix) == Len(s) >= Len(prefix) /\ SubSeq(s, 1, Len(prefix)) = prefix

\* str.count of one character
count(s, c) == Cardinality({i \in DOMAIN s : s[i] = c})

\* str.find of one character from position start on (positions from 1; 0
\* when there is none).
find(s, c, start) ==
    LET I == {i \in DOMAIN s : i >= start /\ s[i] = c}
    IN IF I = {} THEN 0 ELSE CHOOSE i \in I : \A j \in I : i <= j

\* line.lstrip().startswith("### ") and line.count("`") == 2
IsHeader(line) ==
    startswith(lstrip(line), <<"#", "#", "#", " ">>) /\ count(line, TICK) = 2

\* line.lstrip().startswith("```")
IsFence(line) == startswith(lstrip(line), <<TICK, TICK, TICK>>)

\* filename = line[start + 1 : end]
HeaderName(line) ==
    LET start == find(line, TICK, 1)
        end == find(line, TICK, start + 1)
    IN SubSeq(line, start + 1, end - 1)

\* Optional[str]: None is the empty tuple, a str the tuple of it.
None == <<>>
Some(s) == <<s>>

CodeBlock(filename, code) == [filename |-> filename, code |-> code]

replacement == <<"<", "c", "o", "d", "e", ">">>

\* filename kept for the blocks that follow.
filename_after_block_kept(filename) == filename

\* filename = None after a block is appended.
filename_after_block(filename) == None

\* The loop over line_it: outside a block a header sets filename, a fence
\* opens a block, any other line is other text; inside a block every line up
\* to the next fence, or to the end of the document, is code.
RECURSIVE scan(_, _, _, _, _, _, _)
scan(lines, i, filename, in_block, code, blocks, other) ==
    IF i > Len(lines)
    THEN IF in_block
         THEN [code_blocks |-> Append(blocks, CodeBlock(filename, join(<<NL>>, code))),
               other_text |-> Append(other, replacement)]
         ELSE [code_blocks |-> blocks, other_text |-> other]
    ELSE IF in_block
    THEN IF IsFence(lines[i])
         THEN scan(lines, i + 1, filename_after_block(filename), FALSE, <<>>,
                   Append(blocks, CodeBlock(filename, join(<<NL>>, code))),
                   Append(other, replacement))
         ELSE scan(lines, i + 1, filename, TRUE, Append(code, lines[i]), blocks, other)
    ELSE IF IsHeader(lines[i])
    THEN scan(lines, i + 1, Some(HeaderName(lines[i])), FALSE, <<>>, blocks, other)
    ELSE IF IsFence(lines[i])
    THEN scan(lines, i + 1, filename, TRUE, <<>>, blocks, other)
    ELSE scan(lines, i + 1, filename, FALSE, <<>>, blocks, Append(other, lines[i]))

\* extract_code_blocks(markdown): other_text is joined when there is any.
extract_code_blocks(markdown) ==
    LET r == scan(splitlines(markdown), 1, None, FALSE, <<>>, <<>>, <<>>)
    IN [code_blocks |-> r.code_blocks, other_text |-> join(<<NL>>, r.other_text)]

call_extract_code_blocks ==
    /\ fpc = "extract"
    /\ ret' = extract_code_blocks(arg)
    /\ fpc' = "extracted"
    /\ arg' = arg
    /\ UNCHANGED varsButFn

InitBlocks ==
    /\ arg \in Markdowns
    /\ ret = <<>>
    /\ fpc = "extract"
    /\ IdleButFn

NextBlocks == call_extract_code_blocks

SpecBlocks == InitBlocks /\ [][NextBlocks]_vars

(***************************************************************************)
(* One attempt with the capture of an evaluation artifact when it passes   *)
(* (migrate.py and eval_generator.py: the attempt state machine and the    *)
(* artifact layout of the specification).                                  *)
(***************************************************************************)
VerifyCmds == {"echo success", "make test"}

\* The name of an artifact directory: <group_name>-<n>.
EvalName(g, n) == <<group_name(g), n>>

EvalNames(dir) == {dir[i].name : i \in DOMAIN dir}

\* The smallest n that gives the group a directory of its own.
EvalNumber(dir, g) ==
    CHOOSE n \in 1..(Len(dir) + 1) :
        /\ EvalName(g, n) \notin EvalNames(dir)
        /\ \A m \in 1..(n - 1) : EvalName(g, m) \in EvalNames(dir)

\* An artifact: source/ holds the files as they were before the migration,
\* manifest.json the file group and the verify command.
EvalArtifact(dir, g, before, cmd) ==
    [name |-> EvalName(g, EvalNumber(dir, g)),
     source |-> before,
     manifest |-> [files |-> <<g>>, verify_cmd |-> cmd]]

\* An artifact captured whatever the flag says.
CreatesEvalAlways(flag) == TRUE

\* dont_create_evals switches the capture off.
CreatesEval(flag) == ~flag

TargetFileSet == {target_files[i] : i \in DOMAIN target_files}

\* GENERATING: the response is applied to the isolated copy.
eval_generate ==
    /\ epc = "GENERATING"
    /\ copy' = [f \in TargetFileSet |-> "new"]
    /\ epc' = "VERIFYING"
    /\ UNCHANGED <<target_files, dont_create_evals, verify_cmd, originals, evals, evals0,
                   etries>>
    /\ UNCHANGED varsButEval

\* VERIFYING: exit code 0 passes; any other is a failed cycle, retried
\* until the budget is used up.
eval_verify ==
    /\ epc = "VERIFYING"
    /\ \E exit_code \in {0, 1} :
        IF VerifyPassed(exit_code)
        THEN /\ epc' = "PASS"
             /\ etries' = etries
        ELSE /\ etries' = etries + 1
             /\ epc' = IF Exhausted(etries + 1) THEN "FAIL" ELSE "GENERATING"
    /\ UNCHANGED <<target_files, dont_create_evals, verify_cmd, originals, copy, evals,
                   evals0>>
    /\ UNCHANGED varsButEval

\* PASS: the copy goes back over the originals; the artifact, when one is
\* captured, holds the originals as they were.
eval_pass ==
    /\ epc = "PASS"
    /\ originals' = copy
    /\ evals' = IF CreatesEval(dont_create_evals)
                THEN Append(evals, EvalArtifact(evals, FileGroup(target_files, "pass"),
                                                originals, verify_cmd))
                ELSE evals
    /\ epc' = "passed"
    /\ UNCHANGED <<target_files, dont_create_evals, verify_cmd, copy, evals0, etries>>
    /\ UNCHANGED varsButEval

InitEval ==
    /\ target_files \in FileLists
    /\ dont_create_evals \in BOOLEAN
    /\ verify_cmd \in VerifyCmds
    /\ originals = [f \in TargetFileSet |-> "old"]
    /\ copy = originals
    /\ evals0 \in {<<>>,
                   <<EvalArtifact(<<>>, FileGroup(target_files, "pass"), originals,
                                  verify_cmd)>>}
    /\ evals = evals0
    /\ etries = 0
    /\ epc = "GENERATING"
    /\ IdleButEval

NextEval ==
    \/ eval_generate
    \/ eval_verify
    \/ eval_pass

SpecEval == InitEval /\ [][NextEval]_vars

(***************************************************************************)
(* storage/local.py: LocalStorageBackend on a directory of its own.  The   *)
(* file system is the set of directories and the files with their bytes.   *)
(***************************************************************************)
\* The destination paths drawn: at the top, in a directory, in a directory
\* of it, and in a directory whose name sorts before "a/" as a string.
S_b == <<"b">>
S_ab == <<"a", "/", "b">>
S_adb == <<"a", "/", "d", "/", "b">>
S_a_b == <<"a", "-", "/", "b">>
StorePaths == {S_b, S_ab, S_adb, S_a_b}

\* The arguments drawn for list_files: all, directories that hold files, a
\* directory that never exists, a path that is a file.
ListPrefixes == {<<>>, <<"a">>, <<"a", "/", "d">>, <<"a", "-">>, <<"d">>, S_ab}

\* config.prefix: none, or the directory "db".
StorePrefixes == {<<>>, <<"d", "b">>}

\* config.path
base_path == <<"/", "r">>

\* The contents drawn for save_content: bytes, and a str that is not ASCII.
Contents == {[kind |-> "bytes", data |-> <<1>>], [kind |-> "str", data |-> <<"eacute">>]}

\* The files save_file is given; a source that is no key here does not exist.
Sources == [s1 |-> <<2, 3>>]
SourcePaths == {"s1", "s2"}

\* str.encode: the UTF-8 bytes of a character.
utf8(c) == IF c = "eacute" THEN <<195, 169>> ELSE <<104>>

RECURSIVE encode(_)
encode(s) == IF s = <<>> THEN <<>> ELSE utf8(Head(s)) \o encode(Tail(s))

\* What open(dest_path, mode).write(content) puts on the disk.
WrittenBytes(content) == IF content.kind = "bytes" THEN content.data ELSE encode(content.data)

\* Path / path
PathJoin(p, q) == IF q = <<>> THEN p ELSE p \o <<"/">> \o q

\* _get_full_path
get_full_path(prefix, path) ==
    IF prefix # <<>> THEN PathJoin(PathJoin(base_path, prefix), path)
    ELSE PathJoin(base_path, path)

\* PurePath.is_relative_to / relative_to
IsRelativeTo(p, dir) == p = dir \/ startswith(p, dir \o <<"/">>)
relative_to(p, dir) == IF p = dir THEN <<".">> ELSE SubSeq(p, Len(dir) + 2, Len(p))

\* _get_relative_path with the prefix never taken off.
get_relative_path_to_base(prefix, p) == relative_to(p, base_path)

\* _get_relative_path: relative to base_path / prefix when there is a prefix
\* and the path is under it, else relative to base_path.
get_relative_path(prefix, p) ==
    IF prefix # <<>> /\ IsRelativeTo(p, PathJoin(base_path, prefix))
    THEN relative_to(p, PathJoin(base_path, prefix))
    ELSE relative_to(p, base_path)

\* The directories dest_path.parent.mkdir(parents=True, exist_ok=True) makes sure of.
Parents(p) == {SubSeq(p, 1, i - 1) : i \in {j \in DOMAIN p : j > 1 /\ p[j] = "/"}}

\* Path.exists
exists(p) == p \in DOMAIN disk \/ p \in dirs

\* A file written or replaced.
write(d, p, bytes) == [x \in DOMAIN d \cup {p} |-> IF x = p THEN bytes ELSE d[x]]

\* unlink that leaves the file.
unlink_leaves(d, p) == d

\* Path.unlink
unlink(d, p) == [x \in DOMAIN d \ {p} |-> d[x]]

\* The existence test of get_file that never fails.
get_missing_never(p) == FALSE

\* get_file: if not file_path.exists()
get_missing(p) == ~exists(p)

\* os.walk: the files under a directory, in some order.
RECURSIVE SeqOf(_)
SeqOf(S) == IF S = {} THEN <<>> ELSE LET x == CHOOSE x \in S : TRUE IN <<x>> \o SeqOf(S \ {x})

walk(search_path) ==
    IF search_path \in dirs
    THEN SeqOf({f \in DOMAIN disk : f # search_path /\ IsRelativeTo(f, search_path)})
    ELSE <<>>

Ok(v) == [kind |-> "ok", value |-> v]
Raise(e) == [kind |-> "raise", value |-> e]

\* save_content: the parents are made, the content written; any OSError is
\* raised as StorageError.
save_content(content, p) ==
    LET dest_path == get_full_path(store_prefix, p)
    IN /\ op' = [name |-> "save_content", path |-> p]
       /\ \/ /\ dirs' = dirs \cup Parents(dest_path)
             /\ disk' = write(disk, dest_path, WrittenBytes(content))
             /\ tracked' = write(tracked, p, WrittenBytes(content))
             /\ sret' = Ok(dest_path)
          \/ /\ sret' = Raise("StorageError")
             /\ UNCHANGED <<dirs, disk, tracked>>
       /\ UNCHANGED store_prefix
       /\ UNCHANGED varsButStore

\* save_file: the parents are made, then the source is copied; a missing
\* source is an OSError, raised as StorageError.
save_file(source_path, p) ==
    LET dest_path == get_full_path(store_prefix, p)
    IN /\ op' = [name |-> "save_file", path |-> p]
       /\ dirs' = dirs \cup Parents(dest_path)
       /\ IF source_path \in DOMAIN Sources
          THEN /\ disk' = write(disk, dest_path, Sources[source_path])
               /\ tracked' = write(tracked, p, Sources[source_path])
               /\ sret' = Ok(dest_path)
          ELSE /\ sret' = Raise("StorageError")
               /\ UNCHANGED <<disk, tracked>>
       /\ UNCHANGED store_prefix
       /\ UNCHANGED varsButStore

\* list_files
list_files(prefix) ==
    LET search_path == get_full_path(store_prefix, prefix)
        found == walk(search_path)
        result == [i \in DOMAIN found |-> get_relative_path(store_prefix, found[i])]
    IN /\ op' = [name |-> "list_files", path |-> prefix]
       /\ sret' = IF ~exists(search_path) THEN Ok(<<>>) ELSE Ok(sorted(result))
       /\ UNCHANGED <<store_prefix, dirs, disk, tracked>>
       /\ UNCHANGED varsButStore

\* get_file: the bytes a read of the returned handle gives.
get_file(p) ==
    LET file_path == get_full_path(store_prefix, p)
    IN /\ op' = [name |-> "get_file", path |-> p]
       /\ sret' = IF get_missing(file_path) THEN Raise("FileNotFoundError")
                  ELSE IF file_path \in DOMAIN disk THEN Ok(disk[file_path])
                  ELSE Raise("StorageError")
       /\ UNCHANGED <<store_prefix, dirs, disk, tracked>>
       /\ UNCHANGED varsButStore

\* delete_file: unlink of a directory is an OSError, raised as StorageError.
delete_file(p) ==
    LET file_path == get_full_path(store_prefix, p)
    IN /\ op' = [name |-> "delete_file", path |-> p]
       /\ IF ~exists(file_path)
          THEN /\ sret' = Ok(FALSE)
               /\ UNCHANGED <<disk, tracked>>
          ELSE IF file_path \in dirs
          THEN /\ sret' = Raise("StorageError")
               /\ UNCHANGED <<disk, tracked>>
          ELSE /\ disk' = unlink(disk, file_path)
               /\ tracked' = [x \in DOMAIN tracked \ {p} |-> tracked[x]]
               /\ sret' = Ok(TRUE)
       /\ UNCHANGED <<store_prefix, dirs>>
       /\ UNCHANGED varsButStore

\* LocalStorageBackend(config): base_path and the prefix directory are made.
InitStore ==
    /\ store_prefix \in StorePrefixes
    /\ dirs = {base_path} \cup Parents(get_full_path(store_prefix, <<"x">>))
    /\ disk = <<>>
    /\ tracked = <<>>
    /\ op = [name |-> "init", path |-> <<>>]
    /\ sret = Ok(<<>>)
    /\ IdleButStore

NextStore ==
    \/ \E content \in Contents, p \in StorePaths : save_content(content, p)
    \/ \E source_path \in SourcePaths, p \in StorePaths : save_file(source_path, p)
    \/ \E prefix \in ListPrefixes : list_files(prefix)
    \/ \E p \in StorePaths : get_file(p)
    \/ \E p \in StorePaths : delete_file(p)

SpecStore == InitStore /\ [][NextStore]_vars

(***************************************************************************)
(* storage/config_loader.py: load_config.  A dict is a function of its     *)
(* keys; a value is a scalar, [s |-> its text], or a dict, [d |-> it].     *)
(***************************************************************************)
Scalar(v) == [s |-> v]
Dict(d) == [d |-> d]
IsDict(v) == "d" \in DOMAIN v

DEFAULT_CONFIG_CONTENT ==
    [storage |-> Dict([type |-> Scalar("local"), path |-> Scalar("migrations")]),
     compress_artifacts |-> Scalar("True"),
     store_failures |-> Scalar("True")]

\* The config files drawn for one directory: "storage" with any of type and
\* bucket, or without "storage"; store_failures true, false or not set.
FileConfig(type, bucket, has_storage, skeys, sf) ==
    [k \in (IF has_storage THEN {"storage"} ELSE {})
            \cup (IF sf = "unset" THEN {} ELSE {"store_failures"}) |->
        IF k = "storage"
        THEN Dict([j \in skeys |-> Scalar(IF j = "type" THEN type ELSE bucket)])
        ELSE Scalar(sf)]

FileConfigs(type, bucket) ==
    {FileConfig(type, bucket, TRUE, skeys, sf) :
        skeys \in SUBSET {"type", "bucket"}, sf \in {"unset", "True", "False"}}
    \cup {FileConfig(type, bucket, FALSE, {}, sf) : sf \in {"unset", "True", "False"}}

RootConfigs == FileConfigs("s3", "root-bucket")
ProjectConfigs == FileConfigs("gdrive", "project-bucket")

\* The environments drawn: each variable unset, or set (also to "").
EnvChoices ==
    [AI_MIGRATE_STORAGE_TYPE : {"unset", "", "gcs"},
     AI_MIGRATE_STORAGE_BUCKET : {"unset", "env-bucket"},
     AI_MIGRATE_STORE_FAILURES : {"unset", "false", "TRUE"}]

Environs == {[v \in {w \in DOMAIN c : c[w] # "unset"} |-> c[v]] : c \in EnvChoices}

\* os.getenv: None, which is falsy like "", when the variable is not set.
getenv(environ, name) == IF name \in DOMAIN environ THEN environ[name] ELSE ""

\* str.lower
lower(v) == IF v = "TRUE" THEN "true" ELSE v

\* compress.lower() in ('true', '1', 'yes')
env_bool(v) == IF lower(v) \in {"true", "1", "yes"} THEN "True" ELSE "False"

\* A dict with the keys of which the values are set.
DictOf(keys, value_of) == [k \in keys |-> value_of[k]]

\* get_env_config
get_env_config(environ) ==
    LET storage_config ==
            DictOf({k \in {"type", "bucket"} :
                        getenv(environ, IF k = "type" THEN "AI_MIGRATE_STORAGE_TYPE"
                                        ELSE "AI_MIGRATE_STORAGE_BUCKET") # ""},
                   [type |-> Scalar(getenv(environ, "AI_MIGRATE_STORAGE_TYPE")),
                    bucket |-> Scalar(getenv(environ, "AI_MIGRATE_STORAGE_BUCKET"))])
        store_failures == getenv(environ, "AI_MIGRATE_STORE_FAILURES")
    IN DictOf((IF storage_config # <<>> THEN {"storage"} ELSE {})
                \cup (IF store_failures # "" THEN {"store_failures"} ELSE {}),
              [storage |-> Dict(storage_config),
               store_failures |-> Scalar(env_bool(store_failures))])

\* deep_merge with no value ever merged as a dict.
both_dicts_never(result, key, value) == FALSE

\* key in result and isinstance(result[key], dict) and isinstance(value, dict)
both_dicts(result, key, value) ==
    key \in DOMAIN result /\ IsDict(result[key]) /\ IsDict(value)

RECURSIVE deep_merge(_, _)
deep_merge(base, override) ==
    [key \in DOMAIN base \cup DOMAIN override |->
        IF key \notin DOMAIN override THEN base[key]
        ELSE IF both_dicts(base, key, override[key])
        THEN Dict(deep_merge(base[key].d, override[key].d))
        ELSE override[key]]

\* MigrationResultConfig.model_validate: the fields, None for a storage
\* field that is not set.
StorageField(config, field) ==
    IF field \in DOMAIN config.storage.d THEN config.storage.d[field].s ELSE "None"

model_validate(config) ==
    [storage |-> [f \in {"type", "path", "bucket"} |-> StorageField(config, f)],
     compress_artifacts |-> config.compress_artifacts.s,
     store_failures |-> config.store_failures.s]

\* load_config: the defaults; inside a project the config of the project
\* root and then, when project_path is another directory, the config there;
\* then the environment.  A config file that is empty or missing adds nothing.
load_config(a) ==
    LET config0 == DEFAULT_CONFIG_CONTENT
        config1 == IF a.where # "outside" /\ a.root_config # <<>>
                   THEN deep_merge(config0, a.root_config) ELSE config0
        config2 == IF a.where = "subdir" /\ a.project_config # <<>>
                   THEN deep_merge(config1, a.project_config) ELSE config1
    IN model_validate(deep_merge(config2, get_env_config(a.environ)))

call_load_config ==
    /\ fpc = "load_config"
    /\ ret' = load_config(arg)
    /\ fpc' = "loaded"
    /\ arg' = arg
    /\ UNCHANGED varsButFn

\* project_path is outside any project, is the project root, or is a
\* directory inside the project.
InitConfig ==
    /\ arg \in [where : {"outside", "root", "subdir"},
                root_config : RootConfigs,
                project_config : ProjectConfigs,
                environ : Environs]
    /\ ret = <<>>
    /\ fpc = "load_config"
    /\ IdleButFn

NextConfig == call_load_config

SpecConfig == InitConfig /\ [][NextConfig]_vars

(***************************************************************************)
(* progress.py: the StatusManager of a run.  Its callers are coroutines of *)
(* one event loop: run() with its spawning loop ("run"), the task of each  *)
(* group, and the render loop add_status starts ("loop").  A coroutine     *)
(* runs until it awaits something that is not ready; only then does        *)
(* another one run.  render() is a coroutine function without an await in  *)
(* it: awaiting it does not suspend the caller.                            *)
(***************************************************************************)
Tid(i) == <<"t1", "t2", "t3", "t4">>[i]

Coroutines == {"run"} \cup {Tid(i) : i \in 1..NumGroups}

\* The group whose task t is; none (0) for run() itself.
GroupOf(t) == IF t = "run" THEN 0 ELSE CHOOSE i \in 1..NumGroups : Tid(i) = t

\* The file lists drawn: groups of SetupShapes, none of them twice.
StatusLists ==
    {fl \in SeqsUpTo({normalize_file_group(e) : e \in SetupShapes}, NumGroups) :
        fl # <<>> /\ IsInjective(fl)}

Call(o, name, value) == [op |-> o, name |-> name, value |-> value]

\* The calls a coroutine makes on the StatusManager, in order: run() adds the
\* status of each group and sets it "Waiting..." before it creates the task;
\* the task sets "Running...", marks passed or failed, and clears the message.
Program(t) ==
    IF t = "run"
    THEN [k \in 1..(2 * Len(st_list)) |->
            IF k % 2 = 1
            THEN Call("add_status", task_name(st_list[(k + 1) \div 2]), "")
            ELSE Call("set_message", task_name(st_list[k \div 2]), "Waiting...")]
    ELSE LET name == task_name(st_list[GroupOf(t)])
         IN <<Call("set_message", name, "Running..."),
              Call("mark_with_status", name, "?"),
              Call("set_message", name, "")>>

\* tg.create_task: the task of a group exists once run() has made both calls
\* for it.
Created(t) ==
    IF t = "run" THEN TRUE
    ELSE GroupOf(t) \in DOMAIN st_list /\ cidx["run"] >= 2 * GroupOf(t)

\* The event loop runs t: t is running, or nothing is and t is resumed.
Control(t) == running = t \/ running = "none"

\* An await that suspends the coroutine, with render() taken to wait for the terminal.
SuspendsAtRender(point) == point \in {"render", "run_migration", "end"}

\* An await that suspends the coroutine: run_migration, and the end of the
\* coroutine (for run(), the exit of the TaskGroup).
Suspends(point) == point \in {"run_migration", "end"}

\* What follows the k-th call of t.
After(t, k) ==
    IF k = Len(Program(t)) THEN "end"
    ELSE IF t = "run" THEN "next_call"
    ELSE IF k = 1 THEN "run_migration"
    ELSE "finally"

Resume(t, point) == IF Suspends(point) THEN "none" ELSE t

\* StatusBar(name): Status.WAITING, no message.
StatusBar == [status |-> "waiting", message |-> ""]

\* The body of add_status, mark_with_status and set_message before the render.
Apply(b, c, value) ==
    CASE c.op = "add_status" ->
             [n \in DOMAIN b \cup {c.name} |-> IF n = c.name THEN StatusBar ELSE b[n]]
      [] c.op = "mark_with_status" -> [b EXCEPT ![c.name].status = value]
      [] OTHER -> [b EXCEPT ![c.name].message = value]

\* render(): the waiting bars are counted, every other bar is printed with
\* its status and its message.
Display(b) ==
    [queue |-> Cardinality({n \in DOMAIN b : b[n].status = "waiting"}),
     lines |-> {[name |-> n, status |-> b[n].status, message |-> b[n].message] :
                    n \in {m \in DOMAIN b : b[m].status # "waiting"}}]

\* async with self.lock: the lock is taken when it is free; else the
\* coroutine is suspended until it is.
lock_acquire(t) ==
    /\ Created(t)
    /\ Control(t)
    /\ step[t] = "idle"
    /\ cidx[t] < Len(Program(t))
    /\ IF sm_lock = "free"
       THEN /\ sm_lock' = t
            /\ step' = [step EXCEPT ![t] = "locked"]
            /\ running' = t
       ELSE /\ running = t
            /\ running' = "none"
            /\ UNCHANGED <<sm_lock, step>>
    /\ UNCHANGED <<st_list, sm_bars, cidx, st_outcome, shown, last, renders>>
    /\ UNCHANGED varsButStatus

\* The update of the registry; mark_with_status and set_message do nothing,
\* and do not render, for a name that is not registered.
update_registry(t) ==
    /\ Control(t)
    /\ step[t] = "locked"
    /\ LET c == Program(t)[cidx[t] + 1]
       IN \E value \in (IF c.op = "mark_with_status" THEN {"passed", "failed"} ELSE {c.value}) :
              /\ IF c.op = "add_status" \/ c.name \in DOMAIN sm_bars
                 THEN /\ sm_bars' = Apply(sm_bars, c, value)
                      /\ last' = [task |-> t, kind |-> "update"]
                      /\ step' = [step EXCEPT ![t] = "updated"]
                      /\ running' = Resume(t, "render")
                 ELSE /\ step' = [step EXCEPT ![t] = "rendered"]
                      /\ running' = t
                      /\ UNCHANGED <<sm_bars, last>>
              /\ st_outcome' = IF c.op = "mark_with_status"
                               THEN [st_outcome EXCEPT ![GroupOf(t)] = value]
                               ELSE st_outcome
    /\ UNCHANGED <<st_list, sm_lock, cidx, shown, renders>>
    /\ UNCHANGED varsButStatus

\* await self.render(), inside the lock.
render(t) ==
    /\ Control(t)
    /\ step[t] = "updated"
    /\ shown' = Display(sm_bars)
    /\ last' = [task |-> t, kind |-> "render"]
    /\ step' = [step EXCEPT ![t] = "rendered"]
    /\ running' = t
    /\ UNCHANGED <<st_list, sm_bars, sm_lock, cidx, st_outcome, renders>>
    /\ UNCHANGED varsButStatus

\* The end of the async with block and of the call.
lock_release(t) ==
    /\ Control(t)
    /\ step[t] = "rendered"
    /\ sm_lock' = "free"
    /\ cidx' = [cidx EXCEPT ![t] = cidx[t] + 1]
    /\ step' = [step EXCEPT ![t] = "idle"]
    /\ running' = Resume(t, After(t, cidx[t] + 1))
    /\ UNCHANGED <<st_list, sm_bars, st_outcome, shown, last, renders>>
    /\ UNCHANGED varsButStatus

\* _render_loop: render() every tenth of a second, without the lock.  The
\* loop exists once the first add_status has started it.
loop_render ==
    /\ running = "none"
    /\ cidx["run"] >= 1 \/ step["run"] \in {"updated", "rendered"}
    /\ renders < MaxRenders
    /\ shown' = Display(sm_bars)
    /\ last' = [task |-> "loop", kind |-> "render"]
    /\ renders' = renders + 1
    /\ UNCHANGED <<st_list, sm_bars, sm_lock, running, cidx, step, st_outcome>>
    /\ UNCHANGED varsButStatus

InitStatus ==
    /\ st_list \in StatusLists
    /\ sm_bars = <<>>
    /\ sm_lock = "free"
    /\ running = "run"
    /\ cidx = [t \in Coroutines |-> 0]
    /\ step = [t \in Coroutines |-> "idle"]
    /\ st_outcome = [i \in 1..NumGroups |-> "none"]
    /\ shown = Display(<<>>)
    /\ last = [task |-> "none", kind |-> "none"]
    /\ renders = 0
    /\ IdleButStatus

NextStatus ==
    \/ loop_render
    \/ \E t \in Coroutines :
           \/ lock_acquire(t)
           \/ update_registry(t)
           \/ render(t)
           \/ lock_release(t)

SpecStatus == InitStatus /\ [][NextStatus]_vars

(***************************************************************************)
(* projects.py: merge_manifests on whole manifests, called again on its    *)
(* own result, and called with one manifest as both arguments              *)
(***************************************************************************)
\* The fields of a Manifest besides files: as the defaults leave them, and as
\* a run wrote them.
Headers ==
    {[f \in ManifestFields \cup {"time"} |->
          IF f = "time" THEN "t0" ELSE ManifestDefault(f)],
     [f \in ManifestFields \cup {"time"} |->
          IF f = "time" THEN "t1" ELSE "given"]}

ManifestWith(h, files) ==
    [f \in DOMAIN h \cup {"files"} |-> IF f = "files" THEN files ELSE h[f]]

\* The loop of merge_manifests when manifest2 is manifest1: f is read from the
\* entry objects the loop writes.
RECURSIVE PromoteSelf(_, _, _)
PromoteSelf(objs, d, k) ==
    IF k > Len(objs) THEN objs
    ELSE PromoteSelf(Promote(objs, d, objs[k]), d, k + 1)

\* merge_manifests(merged, manifest2): the entries of merged are entry objects
\* of manifest1, and are mutated in place again.
merge_manifests_again ==
    /\ mpc = "done"
    /\ LET d == EntriesFrom(manifest1.files, 1, <<>>)
           objs == MergedObjects(merged, manifest2)
       IN /\ manifest1' =
                 [manifest1 EXCEPT !.files =
                     [i \in DOMAIN manifest1.files |->
                         IF \E j \in DOMAIN d : d[j].ref = i
                         THEN objs[CHOOSE j \in DOMAIN d : d[j].ref = i]
                         ELSE manifest1.files[i]]]
          /\ remerged' = [merged EXCEPT !.files = MergedFiles(merged, manifest2)]
    /\ mpc' = "again"
    /\ UNCHANGED <<manifest2, base0, merged, varsName, varsRun, varsPersist, varsAux>>

\* merge_manifests(manifest1, manifest1)
merge_manifests_self ==
    /\ mpc = "call_self"
    /\ LET d == EntriesFrom(manifest1.files, 1, <<>>)
           objs == PromoteSelf(manifest1.files, d, 1)
       IN /\ manifest1' = [manifest1 EXCEPT !.files = objs]
          /\ manifest2' = [manifest1 EXCEPT !.files = objs]
          /\ merged' = [manifest1 EXCEPT !.files = [j \in 1..Len(d) |-> objs[d[j].ref]]]
    /\ mpc' = "done_self"
    /\ UNCHANGED <<base0, remerged, varsName, varsRun, varsPersist, varsAux>>

InitRemerge ==
    /\ manifest1 \in {ManifestWith(h, fs) : h \in Headers, fs \in SeqsUpTo(BaseEntries, MaxBase)}
    /\ mpc \in {"call", "call_self"}
    /\ IF mpc = "call"
       THEN manifest2 \in {ManifestWith(h, fs) :
                               h \in Headers, fs \in SeqsUpTo(IncomingEntries, MaxIncoming)}
       ELSE manifest2 = manifest1
    /\ base0 = manifest1
    /\ merged = Manifest(<<>>)
    /\ remerged = Manifest(<<>>)
    /\ NameIdle
    /\ RunIdle
    /\ PersistIdle
    /\ AuxIdle

NextRemerge ==
    \/ merge_manifests
    \/ merge_manifests_again
    \/ merge_manifests_self

SpecRemerge == InitRemerge /\ [][NextRemerge]_vars

(***************************************************************************)
(* manifest.py, projects.py: one file in its two shapes, the legacy        *)
(* FileEntry and the FileGroup of one file                                 *)
(***************************************************************************)
LegacyEntry(a) == FileEntry(a.filename, a.entry_result)

OneFileGroup(a) == FileGroup(<<a.filename>>, a.group_result)

\* group_name() of both shapes, normalize_file_group of the entry, and
\* merge_manifests with each shape as base and the other as incoming.
call_shapes ==
    /\ fpc = "shapes"
    /\ ret' = [entry_name |-> group_name(LegacyEntry(arg)),
               group_name |-> group_name(OneFileGroup(arg)),
               normalized |-> normalize_file_group(LegacyEntry(arg)),
               into_group |-> MergedFiles(Manifest(<<OneFileGroup(arg)>>),
                                          Manifest(<<LegacyEntry(arg)>>)),
               into_entry |-> MergedFiles(Manifest(<<LegacyEntry(arg)>>),
                                          Manifest(<<OneFileGroup(arg)>>))]
    /\ fpc' = "compared"
    /\ arg' = arg
    /\ UNCHANGED varsButFn

InitShapes ==
    /\ arg \in [filename : Paths, entry_result : Results, group_result : Results]
    /\ ret = <<>>
    /\ fpc = "shapes"
    /\ IdleButFn

NextShapes == call_shapes

SpecShapes == InitShapes /\ [][NextShapes]_vars

(***************************************************************************)
(* Properties of the run                                                   *)
(***************************************************************************)
EntriesOf(g) == {j \in DOMAIN results : results[j].files = file_list[g].files}

Failed(g) ==
    \/ outcome[g] \in {"AttemptExhausted", "InfrastructureError"}
    \/ (pc[g] = "done" /\ outcome[g] = "none")

C7_EveryErrorBecomesAResult ==
    spc = "returned" =>
        \A g \in Scheduled :
            /\ Cardinality(EntriesOf(g)) = 1
            /\ Failed(g) => \A j \in EntriesOf(g) : results[j].result = "fail"

\* C8: at no moment are more than max_workers attempts past the semaphore, so
\* no more than max_workers verification subprocesses run at once.
C8_AtMostMaxWorkers ==
    /\ Cardinality({g \in Groups : HoldsPermit(pc[g])}) <= max_workers
    /\ Cardinality({g \in Groups : pc[g] \in {"PRE_VERIFY", "VERIFYING"}}) <= max_workers

C8_Witness ==
    /\ Len(file_list) > max_workers
    /\ Cardinality({g \in Groups : pc[g] = "VERIFYING"}) = max_workers
    /\ \E g \in Groups : pc[g] = "created"

GenCalls(g) == Count(transcript[g], "assistant")

Violations(g) == Count(transcript[g], "violation")

Feedbacks(g) == Count(transcript[g], "feedback")

VerifyRuns(g) == Count(cmd_log[g], <<"verify", 0>>) + Count(cmd_log[g], <<"verify", 1>>)

VerifyFails(g) == Count(cmd_log[g], <<"verify", 1>>)

C12_VerifyZeroPassesInOneCycle ==
    \A g \in Groups :
        (~pre_verify_cmd /\ VerifyFails(g) = 0) =>
            /\ Feedbacks(g) = 0
            /\ tries[g] = Violations(g)
            /\ pc[g] = "PASS" => cmd_log[g] = <<<<"verify", 0>>>>
            /\ cmd_log[g] # <<>> =>
                   (cmd_log[g] = <<<<"verify", 0>>>> /\ pc[g] \in {"PASS", "cancelled"})
            /\ (pc[g] = "PASS" /\ Violations(g) = 0) =>
                   transcript[g] = <<"system", "user", "assistant">>

C12_Witness ==
    \E g \in Scheduled :
        /\ ~pre_verify_cmd
        /\ pc[g] = "PASS"
        /\ cmd_log[g] = <<<<"verify", 0>>>>
        /\ transcript[g] = <<"system", "user", "assistant">>

\* C13: an attempt whose verify command failed N times and then exited 0 is at
\* PASS after N + 1 verifications, N + 1 <= MaxTries, with exactly N
\* corrective-feedback entries in its conversation (and N + 1 generated
\* responses, N tries used, when no response broke the protocol); and the
\* budget is not given up early: an attempt ends as AttemptExhausted only
\* with its MaxTries-th failed round.
C13_PassAfterNFailures ==
    /\ [](\A g \in Groups :
             /\ Feedbacks(g) = VerifyFails(g)
             /\ tries[g] = VerifyFails(g) + Violations(g)
             /\ pc[g] = "PASS" =>
                    /\ VerifyRuns(g) = VerifyFails(g) + 1
                    /\ cmd_log[g][Len(cmd_log[g])] = <<"verify", 0>>
                    /\ VerifyFails(g) + 1 <= MaxTries
                    /\ Violations(g) = 0 => GenCalls(g) = VerifyFails(g) + 1)
    /\ [][\A g \in Groups :
             (outcome[g] = "none" /\ outcome'[g] = "AttemptExhausted") =>
                 tries[g] + 1 = MaxTries]_vars

C13_Witness ==
    \E g \in Scheduled :
        /\ pc[g] = "PASS"
        /\ VerifyFails(g) = MaxTries - 1
        /\ VerifyFails(g) >= 1
        /\ Violations(g) = 0
        /\ Feedbacks(g) = VerifyFails(g)

\* C14: a verify command that fails as often as the budget has cycles never
\* yields a pass: no living attempt has MaxTries failed rounds behind it; the
\* attempt that leaves VERIFYING on its last cycle is at PASS or has ended,
\* never back at GENERATING; and AttemptExhausted is a terminal failure, its
\* result fail.
C14_BudgetExhaustedIsFailure ==
    /\ [](\A g \in Groups :
             /\ tries[g] < MaxTries
             /\ VerifyFails(g) < MaxTries
             /\ outcome[g] = "AttemptExhausted" =>
                    /\ ~InAttempt(pc[g])
                    /\ new_result[g] \in {"none", "fail"}
                    /\ pc[g] \in {"finally", "done"} => new_result[g] = "fail"
                    /\ \A j \in EntriesOf(g) : results[j].result = "fail")
    /\ [][\A g \in Groups :
             (pc[g] = "VERIFYING" /\ tries[g] + 1 >= MaxTries /\ pc'[g] # "VERIFYING") =>
                 \/ pc'[g] = "PASS"
                 \/ pc'[g] = "cancelled"
                 \/ pc'[g] = "handler" /\ outcome'[g] \in {"AttemptExhausted", "InfrastructureError"}]_vars

C14_Witness ==
    \E g \in Scheduled :
        /\ pc[g] = "done"
        /\ outcome[g] = "AttemptExhausted"
        /\ \E j \in EntriesOf(g) : results[j].result = "fail"

(***************************************************************************)
(* Properties of the end of a run                                          *)
(***************************************************************************)
\* C15: the manifest is persisted only after every launched task has ended:
\* while a scheduled group's task is not created, waiting or running, no
\* manifest snapshot is written; the one snapshot a run writes holds the
\* final results, and the run has returned.
C15_PersistOnlyAfterJoin ==
    /\ Len(snapshots) <= 1
    /\ (\E g \in Scheduled : pc[g] # "done") => snapshots = <<>>
    /\ snapshots # <<>> =>
           /\ spc = "returned"
           /\ snapshots[1] = results
           /\ \A g \in Scheduled : ~HoldsPermit(pc[g]) /\ pc[g] # "created"

C15_Witness ==
    /\ spc = "returned"
    /\ Len(file_list) = NumGroups
    /\ snapshots = <<results>>
    /\ \E j, k \in DOMAIN results :
           results[j].result = "pass" /\ results[k].result \in {"fail", "fail-pre-verify"}

\* C16: no run overwrites a manifest file a prior run wrote, also when two
\* runs end within the same second: the file every ended run wrote is still
\* there and still holds what that run wrote.
C16_NeverOverwritesAManifest ==
    \A r \in DOMAIN written :
        /\ written[r] \in DOMAIN manifest_dir
        /\ manifest_dir[written[r]] = r

StatusOf(r, bar) ==
    IF r # "none" THEN r
    ELSE IF bar.message = "Running..." THEN "running"
    ELSE "unknown"

Requested == FileList(loaded)

\* The branch of the group says it passed in an earlier run.
PassedEarlier(g) ==
    \E j \in DOMAIN git_manifest.files :
        /\ group_name(git_manifest.files[j]) = group_name(g)
        /\ git_manifest.files[j].result = "pass"

InWorkList(g) == \E i \in DOMAIN work_list : work_list[i].files = g.files

\* C21: a run that resumes after an interrupted one takes every requested
\* group that has no pass on record (neither in the manifest file nor on its
\* branch) back into the work list, and keeps every group whose branch says
\* pass as pass: such a group is in the work list with result "pass" or not
\* at all.
C21_ResumeKeepsPassAndRetakesTheRest ==
    (rpc # "call" /\ resume /\ Requested # <<>>) =>
        \A k \in DOMAIN Requested :
            LET g == Requested[k]
            IN /\ (~PassedEarlier(g) /\ g.result # "pass") => InWorkList(g)
               /\ PassedEarlier(g) =>
                    \A i \in DOMAIN work_list :
                        work_list[i].files = g.files => work_list[i].result = "pass"

\* C22: a run whose work list is empty returns from its setup: when it
\* has returned it created no task and wrote no manifest.
C22_EmptyWorkListAbortsAtSetup ==
    (rpc = "returned" /\ work_list = <<>>) => (log_files = <<>> /\ ~saved)

\* C23: two distinct groups of a run never have the same log file.
C23_OneLogFilePerGroup ==
    \A i, j \in DOMAIN log_files :
        work_list[i].files # work_list[j].files => log_files[i] # log_files[j]

(***************************************************************************)
(* Properties of Manifest.model_validate_json                              *)
(***************************************************************************)
Parsed == fpc = "parsed" /\ "error" \notin DOMAIN ret

\* C24: in a parsed manifest an object with "files" and no "filename" is a
\* FileGroup of those files, an object with "filename" and no "files" is a
\* FileEntry of that file name, whatever else the list holds; each has the
\* result the object gives, "?" when it gives none; and a field of the
\* manifest the JSON does not set has its default.
C24_BothEntryShapesParse ==
    Parsed =>
        /\ Len(ret.files) = Len(arg.files)
        /\ \A i \in DOMAIN arg.files :
            LET o == arg.files[i]
                e == ret.files[i]
            IN /\ ("files" \in DOMAIN o /\ "filename" \notin DOMAIN o) =>
                    (IsFileGroup(e) /\ e.files = o.files)
               /\ ("filename" \in DOMAIN o /\ "files" \notin DOMAIN o) =>
                    (~IsFileGroup(e) /\ e.filename = o.filename)
               /\ e.result = (IF "result" \in DOMAIN o THEN o.result ELSE "?")
        /\ \A k \in ManifestFields :
            ret[k] = (IF k \in DOMAIN arg THEN arg[k] ELSE ManifestDefault(k))

\* A list with a group and a single file, one without a result, was parsed.
C24_Witness ==
    /\ Parsed
    /\ \E i, j \in DOMAIN ret.files :
        /\ IsFileGroup(ret.files[i])
        /\ ~IsFileGroup(ret.files[j])
        /\ "result" \notin DOMAIN arg.files[i]
        /\ ret.files[j].result = "pass"
    /\ "verify_cmd" \notin DOMAIN arg

(***************************************************************************)
(* Properties of extract_code_blocks                                       *)
(***************************************************************************)
\* The fence lines of a document, in order.
FenceLines(doc) == {i \in DOMAIN doc : IsFence(doc[i])}

\* The n-th member of a set of line numbers.
Nth(I, n) == CHOOSE i \in I : Cardinality({j \in I : j < i}) = n - 1

\* The fenced blocks: the k-th is opened by the fence 2k - 1 and closed by
\* the fence 2k, or by the end of the document.
NumBlocks(doc) == (Cardinality(FenceLines(doc)) + 1) \div 2
Opener(doc, k) == Nth(FenceLines(doc), 2 * k - 1)
Closer(doc, k) ==
    IF 2 * k <= Cardinality(FenceLines(doc)) THEN Nth(FenceLines(doc), 2 * k)
    ELSE Len(doc) + 1

\* The headers between the block before the k-th and the k-th.
HeadersBefore(doc, k) ==
    {i \in DOMAIN doc :
        /\ IsHeader(doc[i])
        /\ i < Opener(doc, k)
        /\ (k > 1 => i > Closer(doc, k - 1))}

ExpectedFilename(doc, k) ==
    LET H == HeadersBefore(doc, k)
    IN IF H = {} THEN None ELSE Some(HeaderName(doc[Nth(H, Cardinality(H))]))

\* The lines other_text is made of: the opening fence of each block, which
\* the token replaces, and every line outside the blocks that is no header.
Kept(doc) ==
    LET n == NumBlocks(doc)
        open == [k \in 1..n |-> Opener(doc, k)]
        close == [k \in 1..n |-> Closer(doc, k)]
    IN {i \in DOMAIN doc :
            \/ \E k \in 1..n : i = open[k]
            \/ (~IsHeader(doc[i]) /\ \A k \in 1..n : i < open[k] \/ i > close[k])}

ExpectedOther(doc) ==
    LET K == Kept(doc)
    IN [n \in 1..Cardinality(K) |->
            IF IsFence(doc[Nth(K, n)]) THEN replacement ELSE doc[Nth(K, n)]]

\* C25: extract_code_blocks returns one CodeBlock per fenced block, in
\* document order, with the lines between its fences as code; the filename of
\* a block is the name of the last header between the block before it and
\* itself, None when there is none; other_text is the lines outside the
\* blocks that are no header, in order, with one replacement token where each
\* block was.
C25_OneCodeBlockPerFencedBlock ==
    fpc = "extracted" =>
        LET doc == splitlines(arg)
        IN /\ Len(ret.code_blocks) = NumBlocks(doc)
           /\ \A k \in 1..NumBlocks(doc) :
                /\ ret.code_blocks[k].code =
                        join(<<NL>>, SubSeq(doc, Opener(doc, k) + 1, Closer(doc, k) - 1))
                /\ ret.code_blocks[k].filename = ExpectedFilename(doc, k)
           /\ ret.other_text = join(<<NL>>, ExpectedOther(doc))

\* A named block followed by a block with no header of its own.
C25_Witness ==
    /\ fpc = "extracted"
    /\ Len(ret.code_blocks) = 2
    /\ ret.code_blocks[1].filename = Some(<<"f">>)
    /\ ret.code_blocks[2].filename = None
    /\ ret.other_text = join(<<NL>>, <<replacement, replacement>>)

(***************************************************************************)
(* Properties of the evaluation artifact                                   *)
(***************************************************************************)
\* C26: with dont_create_evals set, an attempt that passed left the
\* evaluations as they were; without it, it added exactly one artifact, in a
\* directory of its own, whose source holds exactly the group's files with
\* the contents they had before the migration and whose manifest names the
\* file group and the verify command.  An attempt that has not passed
\* added none.
C26_OneEvalPerPassUnlessDisabled ==
    /\ epc # "passed" => evals = evals0
    /\ (epc = "passed" /\ dont_create_evals) => evals = evals0
    /\ (epc = "passed" /\ ~dont_create_evals) =>
        /\ Len(evals) = Len(evals0) + 1
        /\ SubSeq(evals, 1, Len(evals0)) = evals0
        /\ LET e == evals[Len(evals)]
           IN /\ e.name \notin EvalNames(evals0)
              /\ DOMAIN e.source = TargetFileSet
              /\ \A f \in TargetFileSet : e.source[f] = "old" /\ originals[f] = "new"
              /\ Len(e.manifest.files) = 1
              /\ e.manifest.files[1].files = target_files
              /\ e.manifest.verify_cmd = verify_cmd

\* A group of several files passed after a failed cycle, with the capture
\* on and an artifact of the same group already there.
C26_Witness ==
    /\ epc = "passed"
    /\ ~dont_create_evals
    /\ Len(target_files) > 1
    /\ etries > 0
    /\ evals0 # <<>>
    /\ Len(evals) = 2

\* The capture is off and the attempt passed.
C26_WitnessDisabled == epc = "passed" /\ dont_create_evals /\ evals = <<>>

Under(p, d) == d = <<>> \/ startswith(p, d \o <<"/">>)

Settings ==
    {<<"storage", "type">>, <<"storage", "bucket">>, <<"storage", "path">>,
     <<"store_failures">>, <<"compress_artifacts">>}

\* A config file sets a setting, and the value it gives it.
FileSets(cfg, st) ==
    IF Len(st) = 1 THEN st[1] \in DOMAIN cfg
    ELSE "storage" \in DOMAIN cfg /\ st[2] \in DOMAIN cfg.storage.d

FileValue(cfg, st) == IF Len(st) = 1 THEN cfg[st[1]].s ELSE cfg.storage.d[st[2]].s

\* The environment variable of a setting, "" when it has none.
EnvVar(st) ==
    CASE st = <<"storage", "type">> -> "AI_MIGRATE_STORAGE_TYPE"
      [] st = <<"storage", "bucket">> -> "AI_MIGRATE_STORAGE_BUCKET"
      [] st = <<"store_failures">> -> "AI_MIGRATE_STORE_FAILURES"
      [] OTHER -> ""

EnvSets(st) == EnvVar(st) \in DOMAIN arg.environ /\ arg.environ[EnvVar(st)] # ""

EnvValue(st) ==
    IF st = <<"store_failures">>
    THEN (IF arg.environ[EnvVar(st)] \in {"true", "TRUE", "1", "yes"} THEN "True" ELSE "False")
    ELSE arg.environ[EnvVar(st)]

\* The value of a setting by priority: environment, project-specific file
\* (project_path is a directory inside a project), file of the project root
\* (project_path is in a project), built-in default, None.
Resolved(st) ==
    IF EnvSets(st) THEN EnvValue(st)
    ELSE IF arg.where = "subdir" /\ FileSets(arg.project_config, st)
    THEN FileValue(arg.project_config, st)
    ELSE IF arg.where # "outside" /\ FileSets(arg.root_config, st)
    THEN FileValue(arg.root_config, st)
    ELSE IF FileSets(DEFAULT_CONFIG_CONTENT, st) THEN FileValue(DEFAULT_CONFIG_CONTENT, st)
    ELSE "None"

Loaded(st) == IF Len(st) = 1 THEN ret[st[1]] ELSE ret.storage[st[2]]

BeforePass(p) ==
    p \in {"none", "created", "start", "open_log", "INIT", "WORKSPACE_READY",
           "PRE_VERIFY", "GENERATING", "VERIFYING"}

Originals(g) == {FilesOf(g)[k] : k \in DOMAIN FilesOf(g)}

\* The step is the copy-back of group g at PASS: it writes the files of g
\* and no other file.
IsCopyBack(g) ==
    /\ pc[g] = "PASS"
    /\ pc'[g] = "handler"
    /\ \A f \in AllFiles \ Originals(g) : orig'[f] = orig[f]

\* C31: as long as the attempt of a group is before PASS (workspace setup,
\* pre-verify, every generation and verification round, retries) its
\* original files are unchanged, and a step that changes an original file
\* is the copy-back of a group at PASS, which writes that group's files only.
C31_OnlyCopyBackWritesOriginals ==
    /\ [](\A g \in Groups : BeforePass(pc[g]) => \A f \in Originals(g) : orig[f] = "old")
    /\ [][orig' # orig => \E g \in Scheduled : IsCopyBack(g)]_vars

\* A group in its second round, its copy migrated and its originals
\* untouched, while another group has already copied back.
C31_Witness ==
    \E g, h \in Scheduled :
        /\ g # h
        /\ pc[g] = "VERIFYING"
        /\ tries[g] >= 1
        /\ \A k \in DOMAIN ws[wsid[g]] : ws[wsid[g]][k] = "new"
        /\ \A f \in Originals(g) : orig[f] = "old"
        /\ \A f \in Originals(h) : orig[f] = "new"


\* The steps a task has before it at most: a failed round costs the steps
\* of a generation and a verification, and MaxTries rounds are the budget.
TaskRank(g) ==
    CASE pc[g] \in {"done", "cancelled"} -> 0
      [] pc[g] = "finally" -> 1
      [] pc[g] = "handler" -> 2
      [] pc[g] = "PASS" -> 3
      [] pc[g] = "VERIFYING" -> 2 * (MaxTries - tries[g]) + 2
      [] pc[g] = "GENERATING" -> 2 * (MaxTries - tries[g]) + 3
      [] pc[g] = "PRE_VERIFY" -> 2 * MaxTries + 4
      [] pc[g] = "WORKSPACE_READY" -> 2 * MaxTries + 5
      [] pc[g] = "INIT" -> 2 * MaxTries + 6
      [] pc[g] = "open_log" -> 2 * MaxTries + 7
      [] pc[g] = "start" -> 2 * MaxTries + 8
      [] pc[g] = "created" -> 2 * MaxTries + 9
      [] OTHER -> 2 * MaxTries + 10

\* C32: an attempt calls the generation capability at most MaxTries times
\* and never starts a cycle beyond the MaxTries-th; an attempt whose
\* collaborators return can take a step as long as it has not ended, every
\* step it takes brings it closer to its end (it ends within 2 * MaxTries + 4
\* steps), and it ends as PASS (returned), FAIL (AttemptExhausted) or
\* fail-pre-verify (FailedPreVerification); the one that used up its cycles
\* is recorded as fail.
C32_BoundedCyclesAndTermination ==
    /\ [](\A g \in Groups :
             /\ GenCalls(g) <= MaxTries
             /\ InAttempt(pc[g]) =>
                    /\ tries[g] < MaxTries
                    /\ ENABLED AttemptStep(g)
             /\ outcome[g] \in {"none", "returned", "AttemptExhausted", "FailedPreVerification"}
             /\ outcome[g] = "AttemptExhausted" => new_result[g] \in {"none", "fail"})
    /\ [][\A g \in Groups :
             (InAttempt(pc[g]) /\ <<pc[g], tries[g], transcript[g], cmd_log[g]>>'
                                    # <<pc[g], tries[g], transcript[g], cmd_log[g]>>)
                 => TaskRank(g)' < TaskRank(g)]_vars

\* The attempt is in its last cycle, every cycle before it failed.
C32_Witness ==
    \E g \in Scheduled :
        /\ pc[g] = "VERIFYING"
        /\ GenCalls(g) = MaxTries
        /\ tries[g] = MaxTries - 1
        /\ VerifyFails(g) >= 1

RECURSIVE RankUpTo(_)
RankUpTo(n) == IF n = 0 THEN 0 ELSE TaskRank(n) + RankUpTo(n - 1)

\* The steps the run has before it at most.
RunRank == RankUpTo(NumGroups) + (IF spc = "spawning" THEN 1 ELSE 0)

C33_UpdateAndRenderUnderTheLock ==
    /\ \A t \in DOMAIN step : step[t] # "idle" => sm_lock = t
    /\ \A t \in DOMAIN step :
           step[t] = "updated" => last = [task |-> t, kind |-> "update"]
    /\ last.kind = "render" => shown = Display(sm_bars)

\* The render loop has rendered between the calls of the tasks of two
\* groups: one has marked its status, the other has not yet.
C33_Witness ==
    /\ last = [task |-> "loop", kind |-> "render"]
    /\ shown.lines # {}
    /\ Len(st_list) = 2
    /\ \E g, h \in DOMAIN st_list :
           /\ st_outcome[g] # "none"
           /\ cidx[Tid(g)] = 3
           /\ cidx[Tid(h)] = 1

(***************************************************************************)
(* Properties of the results of a run                                      *)
(***************************************************************************)
\* The entries of rs for the files of the manifest entry e.
EntriesFor(rs, e) == {j \in DOMAIN rs : rs[j].files = normalize_file_group(e).files}

\* C35: a group whose result is "pass" in the manifest as merged at the start
\* of the run is in the manifest the run writes, with result "pass".
C35_PassSurvivesTheRun ==
    (rpc = "returned" /\ saved) =>
        \A i \in DOMAIN manifest.files :
            manifest.files[i].result = "pass" =>
                \E j \in EntriesFor(persisted, manifest.files[i]) : persisted[j].result = "pass"

\* C36: with only_failed, when the TaskGroup is left no attempt was made for
\* a group whose result is "pass" after the merge, and exactly one for every
\* other group of the manifest.
C36_OnlyFailedAttemptsTheRestOnce ==
    (only_failed /\ rpc \in {"persist", "returned"}) =>
        \A i \in DOMAIN manifest.files :
            Cardinality(EntriesFor(run_results, manifest.files[i]))
                = IF manifest.files[i].result = "pass" THEN 0 ELSE 1


(***************************************************************************)
(* Properties of the status trackers                                       *)
(***************************************************************************)
\* run() has registered the tracker of group i.
Registered(i) == cidx["run"] >= 2 * i - 1

\* The task of group i has marked its tracker passed or failed.
Marked(i) == st_outcome[i] # "none" /\ (cidx[Tid(i)] >= 2 \/ step[Tid(i)] \in {"updated", "rendered"})

\* C37: two distinct groups never share a status tracker: the names under
\* which the trackers of two scheduled groups are registered differ, the
\* registration of one group leaves the tracker of every other as it was, and
\* once the task of a group has marked its tracker, the status of the tracker
\* is the outcome of that group's attempt.
C37_GroupsNeverShareATracker ==
    /\ [](\A i \in DOMAIN st_list :
            /\ \A j \in DOMAIN st_list :
                   (i # j /\ Registered(i) /\ Registered(j))
                       => task_name(st_list[i]) # task_name(st_list[j])
            /\ Marked(i) =>
                   /\ task_name(st_list[i]) \in DOMAIN sm_bars
                   /\ sm_bars[task_name(st_list[i])].status = st_outcome[i])
    /\ [][\A n \in DOMAIN sm_bars :
            (\E i \in DOMAIN st_list : cidx["run"] = 2 * i - 2 /\ step["run"] = "locked")
                => (n \in DOMAIN sm_bars' /\ sm_bars'[n] = sm_bars[n])]_vars


(***************************************************************************)
(* Properties of merge_manifests on whole manifests                        *)
(***************************************************************************)
\* C38: merge_manifests(base, incoming) changes nothing but results of base
\* entries: the call leaves incoming as it was, and the manifest it returns
\* has the fields target_repo_ref, migrate_repo_ref, system_prompt,
\* verify_cmd, pre_verify_cmd and time of base, and entry by entry the file
\* paths of base.
C38_MergeChangesOnlyResults ==
    /\ [](mpc = "done" =>
            /\ \A f \in {"target_repo_ref", "migrate_repo_ref", "system_prompt",
                         "verify_cmd", "pre_verify_cmd", "time"} : merged[f] = base0[f]
            /\ Len(M) = Len(A)
            /\ \A i \in DOMAIN M : i \in DOMAIN A /\ SameShape(M[i], A[i])
            /\ Len(manifest1.files) = Len(A)
            /\ \A i \in DOMAIN A : SameShape(manifest1.files[i], A[i]))
    /\ [][mpc = "call" => manifest2' = manifest2]_vars

\* C39: merge_manifests is idempotent in its second argument:
\* merge(merge(A, B), B) has the entries and results of merge(A, B), and
\* merge(A, A) has the entries and results of A.
C39_MergeIdempotent ==
    /\ mpc = "again" => remerged.files = merged.files
    /\ mpc = "done_self" => merged.files = base0.files


(***************************************************************************)
(* Properties of the two shapes of a one-file entry                        *)
(***************************************************************************)
\* C40: a legacy FileEntry for filename f and a FileGroup with the single
\* file f have the same group identity, normalize_file_group maps the entry
\* to the one-file group with the entry's result, and a "pass" recorded in
\* either shape promotes the entry of the other shape on merge.
C40_LegacyEntryIsOneFileGroup ==
    fpc = "compared" =>
        /\ ret.entry_name = ret.group_name
        /\ ret.normalized = FileGroup(<<arg.filename>>, arg.entry_result)
        /\ arg.entry_result = "pass" =>
               ret.into_group = <<FileGroup(<<arg.filename>>, "pass")>>
        /\ arg.group_result = "pass" =>
               ret.into_entry = <<FileEntry(arg.filename, "pass")>>

C40_Witness ==
    /\ fpc = "compared"
    /\ arg.filename = P_da
    /\ arg.entry_result = "pass"
    /\ arg.group_result = "fail"
    /\ ret.into_group = <<FileGroup(<<P_da>>, "pass")>>

====
